---- MODULE Spec2Model ----
(***************************************************************************)
(* A model of the CSV++ reference implementation (ri/src/csvpp):           *)
(*   header_parser.py  parse_field and its helpers,                        *)
(*   value_parser.py   parse_value and quote_aware_split,                  *)
(*   parser.py         parse and its row helpers.                          *)
(* A Python str is a sequence of one-character strings.  Positions are     *)
(* 0-based as in the source: At(s, i) is s[i].                             *)
(***************************************************************************)
EXTENDS Integers, Sequences, FiniteSets, TLC

VARIABLES hdr, qas, val, doc

vars == <<hdr, qas, val, doc>>

(***************************************************************************)
(* Python str primitives                                                   *)
(***************************************************************************)

\* s[i], 0-based
At(s, i) == s[i + 1]

\* s[a:b] for 0 <= a, with Python's clamping of b
Slice(s, a, b) ==
    LET e == IF b > Len(s) THEN Len(s) ELSE b
    IN  IF a >= e THEN << >> ELSE SubSeq(s, a + 1, e)

\* s[a:]
SliceFrom(s, a) == Slice(s, a, Len(s))

\* s.startswith(p)
StartsWith(s, p) == Len(p) <= Len(s) /\ SubSeq(s, 1, Len(p)) = p

\* s[i:i + len(d)] == d
MatchAt(s, i, d) == Slice(s, i, i + Len(d)) = d

\* s.find(c, pos): the first index >= pos holding the character c, else -1
Find(s, c, pos) ==
    LET hits == {i \in pos..(Len(s) - 1) : At(s, i) = c}
    IN  IF hits = {} THEN -1 ELSE CHOOSE i \in hits : \A j \in hits : i <= j

\* str.strip() removes leading and trailing whitespace
Whitespace == {" ", "\t", "\n", "\r"}

RECURSIVE LStrip(_)
LStrip(s) == IF s # << >> /\ Head(s) \in Whitespace THEN LStrip(Tail(s)) ELSE s

RECURSIVE RStrip(_)
RStrip(s) ==
    IF s # << >> /\ s[Len(s)] \in Whitespace
    THEN RStrip(SubSeq(s, 1, Len(s) - 1)) ELSE s

Strip(s) == RStrip(LStrip(s))

(***************************************************************************)
(* models.py: the Field union and the exceptions                           *)
(***************************************************************************)

\* One record shape for the three dataclasses; the fields a class does not
\* have are empty.
SimpleField(name) ==
    [kind |-> "SimpleField", name |-> name, delimiter |-> "",
     element_type |-> << >>, component_delimiter |-> "", components |-> << >>]

\* element_type is held as a one-element sequence
ArrayField(name, delimiter, element_type) ==
    [kind |-> "ArrayField", name |-> name, delimiter |-> delimiter,
     element_type |-> <<element_type>>, component_delimiter |-> "",
     components |-> << >>]

StructField(name, component_delimiter, components) ==
    [kind |-> "StructField", name |-> name, delimiter |-> "",
     element_type |-> << >>, component_delimiter |-> component_delimiter,
     components |-> components]

HeaderParseError == "HeaderParseError"
DelimiterConflictError == "DelimiterConflictError"
ValueParseError == "ValueParseError"
InvalidQuotingError == "InvalidQuotingError"
CSVPPError == "CSVPPError"

(***************************************************************************)
(* header_parser.py                                                        *)
(***************************************************************************)

\* field-char = ALPHA / DIGIT / "_" / "-"
FieldChars ==
    {"a","b","c","d","e","f","g","h","i","j","k","l","m","n","o","p","q","r",
     "s","t","u","v","w","x","y","z",
     "A","B","C","D","E","F","G","H","I","J","K","L","M","N","O","P","Q","R",
     "S","T","U","V","W","X","Y","Z",
     "0","1","2","3","4","5","6","7","8","9","_","-"}

\* _NAME_RE.match(s, pos).end(), or -1 when there is no match.  The pattern
\* starts with "^", which re matches at the real start of the string only,
\* whatever pos is.
RECURSIVE NameEnd(_, _)
NameEnd(s, i) ==
    IF i < Len(s) /\ At(s, i) \in FieldChars THEN NameEnd(s, i + 1) ELSE i

NameMatchEnd(s, pos) ==
    IF pos = 0 /\ Len(s) > 0 /\ At(s, 0) \in FieldChars THEN NameEnd(s, 0) ELSE -1

DEFAULT_ARRAY_DELIM == "~"
DEFAULT_COMP_DELIM == "^"

\* The call stack of the interpreter.  sys.getrecursionlimit() is 1000; a
\* call that would be frame 1000 of the stack raises RecursionError.  With
\* parse_field called from module level, the module is frame 1, parse_field
\* frame 2 and _parse_field at depth 0 frame 3; every nesting level adds
\* _parse_component_list and _parse_field.
RECURSION_LIMIT == 1000
RecursionError == "RecursionError"

StackOverflows(frame) == frame >= RECURSION_LIMIT

FrameOfParseField(depth) == 3 + 2 * depth

\* A variant with a limit that no nesting reaches
NESTING_WARN_DEPTH_Unreached == RECURSION_LIMIT

NESTING_WARN_DEPTH == 4

\* The outcome of _parse_field: (Field, new_pos), or the exception raised.
\* warned counts the NestingDepthWarning notices issued on the way.
NoField == SimpleField(<< >>)

Raise(err, warned) ==
    [ok |-> FALSE, err |-> err, field |-> NoField, pos |-> -1, warned |-> warned]

Return(field, pos, warned) ==
    [ok |-> TRUE, err |-> "", field |-> field, pos |-> pos, warned |-> warned]

\* _bracket_aware_split: the loop from index i, with the parts closed so far,
\* the current part and the bracket depth
RECURSIVE BracketSplitFrom(_, _, _, _, _, _)
BracketSplitFrom(s, delimiter, i, parts, current, depth) ==
    IF i >= Len(s) THEN Append(parts, current)
    ELSE LET ch == At(s, i) IN
         IF ch \in {"(", "["}
         THEN BracketSplitFrom(s, delimiter, i + 1, parts, Append(current, ch), depth + 1)
         ELSE IF ch \in {")", "]"}
         THEN BracketSplitFrom(s, delimiter, i + 1, parts, Append(current, ch), depth - 1)
         ELSE IF depth = 0 /\ MatchAt(s, i, delimiter)
         THEN BracketSplitFrom(s, delimiter, i + Len(delimiter),
                               Append(parts, current), << >>, depth)
         ELSE BracketSplitFrom(s, delimiter, i + 1, parts, Append(current, ch), depth)

bracket_aware_split(s, delimiter) == BracketSplitFrom(s, delimiter, 0, << >>, << >>, 0)

\* The scan for the ")" that closes a struct body: the position after the
\* loop and the depth counter left
RECURSIVE CloseParenFrom(_, _, _)
CloseParenFrom(s, pos, depth_count) ==
    IF pos < Len(s) /\ depth_count > 0
    THEN CloseParenFrom(s, pos + 1,
            IF At(s, pos) = "(" THEN depth_count + 1
            ELSE IF At(s, pos) = ")" THEN depth_count - 1
            ELSE depth_count)
    ELSE [pos |-> pos, depth_count |-> depth_count]

\* A parser that takes empty brackets at every depth
EmptyBracketsAllowed_Always(depth) == TRUE

\* The check of the bracket interior: empty [] below the top level
EmptyBracketsAllowed(depth) == ~(depth > 0)

\* A parser that never finds the component delimiter in use
CompDelimInUse_Never(comp_delim, used_delimiters) == FALSE

\* The validation of the component delimiter against the enclosing levels
CompDelimInUse(comp_delim, used_delimiters) == comp_delim \in used_delimiters

\* A parser that never finds the array delimiter in use
ArrayDelimInUse_Never(array_delim, used_delimiters) == FALSE

\* The validation of the array delimiter against the enclosing levels
ArrayDelimInUse(array_delim, used_delimiters) == array_delim \in used_delimiters

\* The set of delimiters visible inside a struct (array_delim "" is None)
InnerUsed(used_delimiters, comp_delim, array_delim) ==
    (used_delimiters \cup {comp_delim})
        \cup (IF array_delim # "" THEN {array_delim} ELSE {})

\* A variant that never takes the trailing text for a delimiter in use
TrailingConflict_Never(trailing, used_delimiters) == FALSE

\* _parse_component_list: the trailing text of a component starts with a
\* delimiter in use
TrailingConflict(trailing, used_delimiters) ==
    \E d \in used_delimiters : StartsWith(trailing, <<d>>)

\* A variant in which the delimiters of a parsed component stay in use for
\* the components after it
UsedForNextComponent_Leaking(used_delimiters, comp_field) ==
    used_delimiters
       \cup (IF comp_field.kind = "ArrayField" THEN {comp_field.delimiter} ELSE {})
       \cup (IF comp_field.kind = "StructField"
             THEN {comp_field.component_delimiter} ELSE {})

\* _parse_component_list: used_delimiters in the next iteration of the loop
\* over raw_components; the loop does not assign to it
UsedForNextComponent(used_delimiters, comp_field) == used_delimiters

RECURSIVE parse_field_at(_, _, _, _), ParseComponentsFrom(_, _, _, _, _, _)

\* _parse_component_list: the loop over raw_components from index k
ParseComponentsFrom(raw_components, k, depth, used_delimiters, components, warned) ==
    IF k > Len(raw_components)
    THEN Return(StructField(<< >>, "", components), 0, warned)
    ELSE LET raw == raw_components[k] IN
         IF StartsWith(raw, <<"(">>) THEN Raise(DelimiterConflictError, warned)
         ELSE LET r == parse_field_at(raw, 0, depth, used_delimiters)
                  w == warned + r.warned
              IN  IF ~r.ok THEN Raise(r.err, w)
                  ELSE IF r.pos # Len(raw)
                  THEN LET trailing == SliceFrom(raw, r.pos) IN
                       IF TrailingConflict(trailing, used_delimiters)
                       THEN Raise(DelimiterConflictError, w)
                       ELSE Raise(HeaderParseError, w)
                  ELSE ParseComponentsFrom(raw_components, k + 1, depth,
                           UsedForNextComponent(used_delimiters, r.field),
                           Append(components, r.field), w)

\* _parse_component_list; the components are returned in a StructField shell
parse_component_list(body, comp_delim, depth, used_delimiters) ==
    IF StackOverflows(FrameOfParseField(depth))
    THEN \* the call of _bracket_aware_split
         Raise(RecursionError, 0)
    ELSE ParseComponentsFrom(bracket_aware_split(body, <<comp_delim>>), 1, depth,
                             used_delimiters, << >>, 0)

\* _parse_field, from the struct body on: pos is at "(" or where "(" is expected
ParseStructBody(s, pos0, depth, used_delimiters, name, array_delim, comp_delim, w0) ==
    IF At(s, pos0) # "(" THEN Raise(HeaderParseError, w0)
    ELSE IF CompDelimInUse(comp_delim, used_delimiters)
    THEN Raise(DelimiterConflictError, w0)
    ELSE IF array_delim # "" /\ comp_delim = array_delim
    THEN Raise(DelimiterConflictError, w0)
    ELSE LET body_start == pos0 + 1
             close == CloseParenFrom(s, body_start, 1)
         IN  IF close.depth_count # 0 THEN Raise(HeaderParseError, w0)
             ELSE IF StackOverflows(FrameOfParseField(depth) + 1)
             THEN \* the call of _parse_component_list
                  Raise(RecursionError, w0)
             ELSE LET body == Slice(s, body_start, close.pos - 1)
                      inner_used == InnerUsed(used_delimiters, comp_delim, array_delim)
                      cl == parse_component_list(body, comp_delim, depth + 1, inner_used)
                      w == w0 + cl.warned
                  IN  IF ~cl.ok THEN Raise(cl.err, w)
                      ELSE LET struct_type ==
                                   StructField(name, comp_delim, cl.field.components)
                           IN  IF array_delim # ""
                               THEN Return(ArrayField(name, array_delim, struct_type),
                                           close.pos, w)
                               ELSE Return(struct_type, close.pos, w)

\* _parse_field, after the optional array brackets
ParseAfterBrackets(s, pos, depth, used_delimiters, name, array_delim, w0) ==
    IF pos < Len(s) /\ At(s, pos) = "("
    THEN ParseStructBody(s, pos, depth, used_delimiters, name, array_delim,
                         DEFAULT_COMP_DELIM, w0)
    ELSE IF pos + 1 < Len(s) /\ At(s, pos + 1) = "("
    THEN ParseStructBody(s, pos + 1, depth, used_delimiters, name, array_delim,
                         At(s, pos), w0)
    ELSE IF StackOverflows(FrameOfParseField(depth) + 1)
    THEN \* the call of the SimpleField or ArrayField constructor
         Raise(RecursionError, w0)
    ELSE IF array_delim # ""
    THEN Return(ArrayField(name, array_delim, SimpleField(name)), pos, w0)
    ELSE Return(SimpleField(name), pos, w0)

\* _parse_field(s, pos, depth, used_delimiters)
parse_field_at(s, pos0, depth, used_delimiters) ==
    LET w0 == IF depth > NESTING_WARN_DEPTH THEN 1 ELSE 0
        m == NameMatchEnd(s, pos0)
    IN  IF StackOverflows(FrameOfParseField(depth)) THEN Raise(RecursionError, 0)
        ELSE IF m = -1 THEN Raise(HeaderParseError, w0)
        ELSE LET name == Slice(s, pos0, m)
                 pos == m
             IN  IF pos < Len(s) /\ At(s, pos) = "["
                 THEN LET bracket_close == Find(s, "]", pos + 1) IN
                      IF bracket_close = -1 THEN Raise(HeaderParseError, w0)
                      ELSE LET delim_str == Slice(s, pos + 1, bracket_close) IN
                           IF delim_str = << >> /\ ~EmptyBracketsAllowed(depth)
                           THEN Raise(HeaderParseError, w0)
                           ELSE IF delim_str # << >> /\ Len(delim_str) # 1
                           THEN Raise(HeaderParseError, w0)
                           ELSE LET array_delim ==
                                        IF delim_str = << >> THEN DEFAULT_ARRAY_DELIM
                                        ELSE delim_str[1]
                                IN  IF ArrayDelimInUse(array_delim, used_delimiters)
                                    THEN Raise(DelimiterConflictError, w0)
                                    ELSE ParseAfterBrackets(s, bracket_close + 1, depth,
                                             used_delimiters, name, array_delim, w0)
                 ELSE ParseAfterBrackets(s, pos, depth, used_delimiters, name, "", w0)

\* A parse_field that does not look at how much was consumed
parse_field_AnyConsumed(header) == parse_field_at(header, 0, 0, {})

\* parse_field(header)
parse_field(header) ==
    LET r == parse_field_at(header, 0, 0, {})
    IN  IF r.ok /\ r.pos # Len(header) THEN Raise(HeaderParseError, r.warned)
        ELSE r

(***************************************************************************)
(* value_parser.py: quote_aware_split                                      *)
(***************************************************************************)

QUOTE == "\""

\* The locals of quote_aware_split before its loop
SplitStart ==
    [i |-> 0, current |-> << >>, this_quoted |-> FALSE, in_quotes |-> FALSE,
     values |-> << >>, quoted_flags |-> << >>]

\* A variant that does not look at the next character
IsEscapedQuote_Never(s, i) == FALSE

\* The escaped-quote test made on a quote met in quoted mode
IsEscapedQuote(s, i) == i + 1 < Len(s) /\ At(s, i + 1) = QUOTE

\* A variant that opens a quoted token at any double quote
OpensQuotedToken_Anywhere(ch, current) == ch = QUOTE

\* The test that opens a quoted token
OpensQuotedToken(ch, current) == ch = QUOTE /\ current = << >>

\* One iteration of the while loop of quote_aware_split (st.i < Len(s))
SplitStep(s, delimiter, st) ==
    LET ch == At(s, st.i) IN
    IF st.in_quotes
    THEN IF ch = QUOTE
         THEN IF IsEscapedQuote(s, st.i)
              THEN [st EXCEPT !.current = Append(@, QUOTE), !.i = @ + 2]
              ELSE [st EXCEPT !.in_quotes = FALSE, !.i = @ + 1]
         ELSE [st EXCEPT !.current = Append(@, ch), !.i = @ + 1]
    ELSE IF OpensQuotedToken(ch, st.current)
         THEN [st EXCEPT !.in_quotes = TRUE, !.this_quoted = TRUE, !.i = @ + 1]
         ELSE IF MatchAt(s, st.i, delimiter)
         THEN [st EXCEPT !.values = Append(@, st.current),
                         !.quoted_flags = Append(@, st.this_quoted),
                         !.current = << >>, !.this_quoted = FALSE,
                         !.i = @ + Len(delimiter)]
         ELSE [st EXCEPT !.current = Append(@, ch), !.i = @ + 1]

\* A variant that drops an empty last token
SplitFinish_DropEmpty(st) ==
    IF st.current = << >>
    THEN [values |-> st.values, quoted_flags |-> st.quoted_flags]
    ELSE [values |-> Append(st.values, st.current),
          quoted_flags |-> Append(st.quoted_flags, st.this_quoted)]

\* The two appends after the loop, and the pair returned
SplitFinish(st) ==
    [values |-> Append(st.values, st.current),
     quoted_flags |-> Append(st.quoted_flags, st.this_quoted)]

RECURSIVE SplitRun(_, _, _)
SplitRun(s, delimiter, st) ==
    IF st.i < Len(s) THEN SplitRun(s, delimiter, SplitStep(s, delimiter, st))
    ELSE SplitFinish(st)

\* quote_aware_split(s, delimiter) -> (values, quoted_flags)
quote_aware_split(s, delimiter) == SplitRun(s, delimiter, SplitStart)

(***************************************************************************)
(* value_parser.py: parse_value                                            *)
(***************************************************************************)

\* Decoded values: str, list, dict (an insertion-ordered sequence of
\* <<key, value>> pairs) and None, in one record shape
VStr(s) == [tag |-> "str", str |-> s, items |-> << >>]
VList(items) == [tag |-> "list", str |-> << >>, items |-> items]
VDict(pairs) == [tag |-> "dict", str |-> << >>, items |-> pairs]
VNone == [tag |-> "None", str |-> << >>, items |-> << >>]

\* d[key] = value on a dict: an existing key keeps its place and takes the
\* new value, a new key goes last
DictSet(pairs, key, value) ==
    IF \E k \in 1..Len(pairs) : pairs[k][1] = key
    THEN [k \in 1..Len(pairs) |->
             IF pairs[k][1] = key THEN <<key, value>> ELSE pairs[k]]
    ELSE Append(pairs, <<key, value>>)

VRaise(err) == [ok |-> FALSE, err |-> err, value |-> VNone]
VReturn(value) == [ok |-> TRUE, err |-> "", value |-> value]

\* isinstance(schema, SimpleField)
IsLeaf(schema) == schema.kind = "SimpleField"

\* The guard of parse_value that rejects a quoted non-leaf value
QuotedNonLeaf(schema, was_quoted) == was_quoted

\* The guard of _parse_array on a quoted element
QuotedNonLeafElement(elem_quoted, element_type) ==
    elem_quoted /\ ~IsLeaf(element_type)

\* A _parse_struct that lets every quoted component through
QuotedNonLeafComponent_Never(elem_quoted, comp_schema) == FALSE

\* The guard of _parse_struct on a quoted component
QuotedNonLeafComponent(elem_quoted, comp_schema) ==
    elem_quoted /\ ~IsLeaf(comp_schema)

\* A _parse_struct that does not count the parts
TooManyParts_Never(elements, components) == FALSE

\* The guard of _parse_struct on the number of parts
TooManyParts(elements, components) == Len(elements) > Len(components)

RECURSIVE parse_value(_, _, _), ParseArrayFrom(_, _, _, _), ParseStructFrom(_, _, _, _)

\* _parse_array: the loop over zip(elements, quoted_flags) from index k
ParseArrayFrom(sp, schema, k, result) ==
    IF k > Len(sp.values) THEN VReturn(VList(result))
    ELSE IF QuotedNonLeafElement(sp.quoted_flags[k], schema.element_type[1])
    THEN VRaise(InvalidQuotingError)
    ELSE LET r == parse_value(sp.values[k], schema.element_type[1], FALSE) IN
         IF ~r.ok THEN r
         ELSE ParseArrayFrom(sp, schema, k + 1, Append(result, r.value))

\* A _parse_array of scalars that leaves the empty elements out
parse_array_DropEmpty(raw, schema) ==
    LET sp == quote_aware_split(raw, <<schema.delimiter>>)
        elements == SelectSeq(sp.values, LAMBDA v : v # << >>)
    IN  VReturn(VList([k \in 1..Len(elements) |-> VStr(elements[k])]))

parse_array(raw, schema) ==
    IF raw = << >> THEN VReturn(VList(<< >>))
    ELSE ParseArrayFrom(quote_aware_split(raw, <<schema.delimiter>>), schema, 1, << >>)

\* A _parse_struct that fills a component without a value with ""
MissingComponent_EmptyString == VStr(<< >>)

\* _parse_struct: what a declared component without a value is bound to
MissingComponent == VNone

\* _parse_struct: the loop over enumerate(schema.components) from index k
\* (k is 1-based here, i = k - 1 in the source)
ParseStructFrom(sp, schema, k, result) ==
    IF k > Len(schema.components) THEN VReturn(VDict(result))
    ELSE LET comp_schema == schema.components[k] IN
         IF k - 1 < Len(sp.values)
         THEN IF QuotedNonLeafComponent(sp.quoted_flags[k], comp_schema)
              THEN VRaise(InvalidQuotingError)
              ELSE LET r == parse_value(sp.values[k], comp_schema, FALSE) IN
                   IF ~r.ok THEN r
                   ELSE ParseStructFrom(sp, schema, k + 1,
                            DictSet(result, comp_schema.name, r.value))
         ELSE ParseStructFrom(sp, schema, k + 1,
                  DictSet(result, comp_schema.name, MissingComponent))

parse_struct(raw, schema) ==
    IF schema.components = << >> THEN VReturn(VDict(<< >>))
    ELSE LET sp == quote_aware_split(raw, <<schema.component_delimiter>>) IN
         IF TooManyParts(sp.values, schema.components)
         THEN VRaise(ValueParseError)
         ELSE ParseStructFrom(sp, schema, 1, << >>)

\* parse_value(raw, schema, was_quoted)
parse_value(raw, schema, was_quoted) ==
    IF IsLeaf(schema) THEN VReturn(VStr(raw))
    ELSE IF QuotedNonLeaf(schema, was_quoted) THEN VRaise(InvalidQuotingError)
    ELSE IF schema.kind = "ArrayField" THEN parse_array(raw, schema)
    ELSE IF schema.kind = "StructField" THEN parse_struct(raw, schema)
    ELSE VRaise(ValueParseError)

(***************************************************************************)
(* parser.py                                                               *)
(***************************************************************************)

\* _make_reader and next(reader): the first row that the standard csv.reader
\* (excel dialect, the given delimiter) yields over io.StringIO(text).  The
\* reader takes the text line by line (a line ends after "\n"), feeds each
\* character and then an end-of-line mark to its state machine, and returns
\* the fields when the machine is back in START_RECORD.
EOL == "EOL"

CsvStart == [state |-> "START_RECORD", field |-> << >>, fields |-> << >>]

CsvSaveField(st) == [st EXCEPT !.fields = Append(@, st.field), !.field = << >>]

CsvAfterNewline(c) == IF c = EOL THEN "START_RECORD" ELSE "EAT_CRNL"

CsvStartField(st, c, delimiter) ==
    IF c \in {"\n", "\r", EOL}
    THEN [CsvSaveField(st) EXCEPT !.state = CsvAfterNewline(c)]
    ELSE IF c = QUOTE THEN [st EXCEPT !.state = "IN_QUOTED_FIELD"]
    ELSE IF c = delimiter THEN [CsvSaveField(st) EXCEPT !.state = "START_FIELD"]
    ELSE [st EXCEPT !.field = Append(@, c), !.state = "IN_FIELD"]

\* parse_process_char of the reader
CsvProcessChar(st, c, delimiter) ==
    IF st.state = "START_RECORD"
    THEN IF c = EOL THEN st
         ELSE IF c \in {"\n", "\r"} THEN [st EXCEPT !.state = "EAT_CRNL"]
         ELSE CsvStartField(st, c, delimiter)
    ELSE IF st.state = "START_FIELD" THEN CsvStartField(st, c, delimiter)
    ELSE IF st.state = "IN_FIELD"
    THEN IF c \in {"\n", "\r", EOL}
         THEN [CsvSaveField(st) EXCEPT !.state = CsvAfterNewline(c)]
         ELSE IF c = delimiter THEN [CsvSaveField(st) EXCEPT !.state = "START_FIELD"]
         ELSE [st EXCEPT !.field = Append(@, c)]
    ELSE IF st.state = "IN_QUOTED_FIELD"
    THEN IF c = EOL THEN st
         ELSE IF c = QUOTE THEN [st EXCEPT !.state = "QUOTE_IN_QUOTED_FIELD"]
         ELSE [st EXCEPT !.field = Append(@, c)]
    ELSE IF st.state = "QUOTE_IN_QUOTED_FIELD"
    THEN IF c = QUOTE
         THEN [st EXCEPT !.field = Append(@, c), !.state = "IN_QUOTED_FIELD"]
         ELSE IF c = delimiter THEN [CsvSaveField(st) EXCEPT !.state = "START_FIELD"]
         ELSE IF c \in {"\n", "\r", EOL}
         THEN [CsvSaveField(st) EXCEPT !.state = CsvAfterNewline(c)]
         ELSE [st EXCEPT !.field = Append(@, c), !.state = "IN_FIELD"]
    ELSE IF st.state = "EAT_CRNL"
    THEN IF c \in {"\n", "\r"} THEN st
         ELSE IF c = EOL THEN [st EXCEPT !.state = "START_RECORD"]
         ELSE [st EXCEPT !.state = "ERROR"]
    ELSE st

CsvRow(fields) == [kind |-> "row", row |-> fields]
\* A variant in which the reader yields an empty row at the end of the text
CsvStopIteration_EmptyRow == [kind |-> "row", row |-> << >>]

CsvStopIteration == [kind |-> "StopIteration", row |-> << >>]
CsvError == [kind |-> "csv.Error", row |-> << >>]
CsvTypeError == [kind |-> "TypeError", row |-> << >>]

\* The reader's loop: i is the next character of text, atLineStart says
\* that no character of the current line has been fed yet
RECURSIVE CsvFrom(_, _, _, _, _)
CsvFrom(text, delimiter, i, atLineStart, st) ==
    IF st.state = "ERROR" THEN CsvError
    ELSE IF i >= Len(text) /\ atLineStart
    THEN \* no further line
         IF st.field # << >> \/ st.state = "IN_QUOTED_FIELD"
         THEN CsvRow(CsvSaveField(st).fields)
         ELSE CsvStopIteration
    ELSE IF i >= Len(text) \/ (~atLineStart /\ At(text, i - 1) = "\n")
    THEN \* the line is fed: the end-of-line mark, then the loop test
         LET e == CsvProcessChar(st, EOL, delimiter) IN
         IF e.state = "ERROR" THEN CsvError
         ELSE IF e.state = "START_RECORD" THEN CsvRow(e.fields)
         ELSE CsvFrom(text, delimiter, i, TRUE, e)
    ELSE CsvFrom(text, delimiter, i + 1, FALSE,
                 CsvProcessChar(st, At(text, i), delimiter))

\* next(_make_reader(text, field_sep))
csv_reader_first_row(text, field_sep) ==
    IF Len(field_sep) # 1 THEN CsvTypeError
    ELSE CsvFrom(text, field_sep[1], 0, TRUE, CsvStart)

\* _split_csv_lines: the locals before the loop
LinesStart == [lines |-> << >>, current |-> << >>, in_quotes |-> FALSE, i |-> 0]

\* One iteration of the while loop of _split_csv_lines
LinesStep(text, st) ==
    LET ch == At(text, st.i) IN
    IF ch = QUOTE
    THEN IF st.in_quotes /\ st.i + 1 < Len(text) /\ At(text, st.i + 1) = QUOTE
         THEN [st EXCEPT !.current = Append(@, QUOTE), !.i = @ + 2]
         ELSE [st EXCEPT !.in_quotes = ~@, !.current = Append(@, ch), !.i = @ + 1]
    ELSE IF ch = "\r" /\ ~st.in_quotes
    THEN [st EXCEPT !.lines = Append(@, st.current), !.current = << >>,
                    !.i = IF st.i + 1 < Len(text) /\ At(text, st.i + 1) = "\n"
                          THEN @ + 2 ELSE @ + 1]
    ELSE IF ch = "\n" /\ ~st.in_quotes
    THEN [st EXCEPT !.lines = Append(@, st.current), !.current = << >>, !.i = @ + 1]
    ELSE [st EXCEPT !.current = Append(@, ch), !.i = @ + 1]

RECURSIVE LinesRun(_, _)
LinesRun(text, st) ==
    IF st.i < Len(text) THEN LinesRun(text, LinesStep(text, st))
    ELSE IF st.current # << >> THEN Append(st.lines, st.current) ELSE st.lines

\* _split_csv_lines(text)
split_csv_lines(text) == LinesRun(text, LinesStart)

\* One iteration of the while loop of _parse_csv_row; the locals are those
\* of quote_aware_split, was_quoted being held in this_quoted
CsvRowStep(line, field_sep, st) ==
    LET ch == At(line, st.i) IN
    IF st.in_quotes
    THEN IF ch = QUOTE
         THEN IF IsEscapedQuote(line, st.i)
              THEN [st EXCEPT !.current = Append(@, QUOTE), !.i = @ + 2]
              ELSE [st EXCEPT !.in_quotes = FALSE, !.i = @ + 1]
         ELSE [st EXCEPT !.current = Append(@, ch), !.i = @ + 1]
    ELSE IF ch = QUOTE /\ st.current = << >>
         THEN [st EXCEPT !.in_quotes = TRUE, !.this_quoted = TRUE, !.i = @ + 1]
         ELSE IF <<ch>> = field_sep
         THEN [st EXCEPT !.values = Append(@, st.current),
                         !.quoted_flags = Append(@, st.this_quoted),
                         !.current = << >>, !.this_quoted = FALSE, !.i = @ + 1]
         ELSE [st EXCEPT !.current = Append(@, ch), !.i = @ + 1]

RECURSIVE CsvRowRun(_, _, _)
CsvRowRun(line, field_sep, st) ==
    IF st.i < Len(line) THEN CsvRowRun(line, field_sep, CsvRowStep(line, field_sep, st))
    ELSE SplitFinish(st)

\* _parse_csv_row(line, field_sep) -> (values, quoted_flags)
parse_csv_row(line, field_sep) == CsvRowRun(line, field_sep, SplitStart)

\* _iter_rows_with_quoting: the rows of the lines after the first, blank
\* lines left out
RECURSIVE RowsFrom(_, _, _, _)
RowsFrom(lines, k, field_sep, rows) ==
    IF k > Len(lines) THEN rows
    ELSE IF Strip(lines[k]) = << >> THEN RowsFrom(lines, k + 1, field_sep, rows)
    ELSE RowsFrom(lines, k + 1, field_sep,
                  Append(rows, parse_csv_row(lines[k], field_sep)))

iter_rows_with_quoting(text, field_sep) ==
    LET lines == split_csv_lines(text)
    IN  IF lines = << >> THEN << >> ELSE RowsFrom(lines, 2, field_sep, << >>)

\* parse_header_row: parse_field of each stripped cell, the first exception
\* ending it
RECURSIVE HeaderRowFrom(_, _, _)
HeaderRowFrom(headers, k, schemas) ==
    IF k > Len(headers) THEN [ok |-> TRUE, err |-> "", schemas |-> schemas]
    ELSE LET r == parse_field(Strip(headers[k])) IN
         IF ~r.ok THEN [ok |-> FALSE, err |-> r.err, schemas |-> << >>]
         ELSE HeaderRowFrom(headers, k + 1, Append(schemas, r.field))

parse_header_row(headers) == HeaderRowFrom(headers, 1, << >>)

PRaise(err) == [ok |-> FALSE, err |-> err, records |-> << >>]
PReturn(records) == [ok |-> TRUE, err |-> "", records |-> records]

\* A variant in which a column without a cell takes the text of a cell
EmptyCell_Filled == <<"p">>

\* parse: raw_val = "" for a column index beyond the cells of the row
EmptyCell == << >>

\* parse: the inner loop over enumerate(schemas) from column k (1-based)
RECURSIVE RecordFrom(_, _, _, _)
RecordFrom(schemas, row, k, record) ==
    IF k > Len(schemas) THEN VReturn(VDict(record))
    ELSE LET has == k - 1 < Len(row.values)
             raw_val == IF has THEN row.values[k] ELSE EmptyCell
             was_quoted == IF has THEN row.quoted_flags[k] ELSE FALSE
             r == parse_value(raw_val, schemas[k], was_quoted)
         IN  IF ~r.ok THEN r
             ELSE RecordFrom(schemas, row, k + 1,
                             DictSet(record, schemas[k].name, r.value))

\* A variant that returns the records decoded before the failing row
RowFailure_Partial(r, records) == PReturn(records)

\* parse: the exception of parse_value leaves parse, the records with it
RowFailure(r, records) == PRaise(r.err)

\* parse: the loop over the rows from row k
RECURSIVE RecordsFrom(_, _, _, _)
RecordsFrom(schemas, rows, k, records) ==
    IF k > Len(rows) THEN PReturn(records)
    ELSE IF Len(rows[k].values) = 0 THEN RecordsFrom(schemas, rows, k + 1, records)
    ELSE LET r == RecordFrom(schemas, rows[k], 1, << >>) IN
         IF ~r.ok THEN RowFailure(r, records)
         ELSE RecordsFrom(schemas, rows, k + 1, Append(records, r.value.items))

\* parse(text, field_sep): the records, each a dict as a sequence of
\* <<name, value>> pairs, or the exception raised
parse(text, field_sep) ==
    LET first == csv_reader_first_row(text, field_sep) IN
    IF first.kind = "TypeError" THEN PRaise("TypeError")
    ELSE IF first.kind = "csv.Error" THEN PRaise("csv.Error")
    ELSE IF first.kind = "StopIteration" THEN PRaise(CSVPPError)
    ELSE LET h == parse_header_row(first.row) IN
         IF ~h.ok THEN PRaise(h.err)
         ELSE RecordsFrom(h.schemas, iter_rows_with_quoting(text, field_sep), 1, << >>)

(***************************************************************************)
(* The callers.  Each of the four variables holds one caller's view of one *)
(* entry point: the arguments it has put together, and the outcome once    *)
(* the call was made.  A caller that is not part of a run stays Idle.      *)
(***************************************************************************)

Idle == [phase |-> "idle"]

\* Bounds of the arguments
MaxSplitLen == 5
MaxRawHeaderLen == 5
MaxDeclLen == 13
MaxValueLen == 5
MaxRowLen == 4
MaxCalls == 2

\* All sequences over alphabet of length at most n
RECURSIVE StringsUpTo(_, _)
StringsUpTo(alphabet, n) ==
    IF n = 0 THEN {<< >>}
    ELSE LET shorter == StringsUpTo(alphabet, n - 1)
         IN  shorter \cup {Append(t, c) : t \in {u \in shorter : Len(u) = n - 1},
                                          c \in alphabet}

(***************************************************************************)
(* A caller of quote_aware_split, followed through the loop                *)
(***************************************************************************)

SplitAlphabet == {"a", QUOTE, "|", "~"}
SplitDelimiters == {<<"|">>, <<"|", "|">>, <<"|", "~">>, <<QUOTE>>}

\* 'a|"say ""hi"""|c', from tests/test_quoting.py
SayHi ==
    <<"a", "|", QUOTE, "s", "a", "y", " ", QUOTE, QUOTE, "h", "i", QUOTE, QUOTE,
      QUOTE, "|", "c">>

SplitExamples == {SayHi}

\* What the caller records beside the loop, from the text alone: tok_start
\* is the index at which the source text of the token being scanned starts,
\* starts the same for the tokens already closed, and recognised the number
\* of delimiter occurrences met at the scan position outside a quoted section
\* (a quote that is the first character of its token opens the token, also
\* when the delimiter starts with a quote).
InitSplit ==
    /\ \E s \in StringsUpTo(SplitAlphabet, MaxSplitLen) \cup SplitExamples,
          d \in SplitDelimiters :
          /\ s \in SplitExamples => d = <<"|">>
          /\ qas = [phase |-> "scan", s |-> s, delimiter |-> d, st |-> SplitStart,
                    tok_start |-> 0, starts |-> << >>, recognised |-> 0,
                    out |-> SplitFinish(SplitStart)]
    /\ hdr = Idle /\ val = Idle /\ doc = Idle

AtDelimiter ==
    /\ ~qas.st.in_quotes
    /\ MatchAt(qas.s, qas.st.i, qas.delimiter)
    /\ ~(At(qas.s, qas.st.i) = QUOTE /\ qas.st.i = qas.tok_start)

\* One iteration of the loop
SplitScan ==
    /\ qas.phase = "scan"
    /\ qas.st.i < Len(qas.s)
    /\ qas' = [qas EXCEPT !.st = SplitStep(qas.s, qas.delimiter, qas.st),
                   !.tok_start =
                       IF AtDelimiter THEN qas.st.i + Len(qas.delimiter) ELSE @,
                   !.starts = IF AtDelimiter THEN Append(@, qas.tok_start) ELSE @,
                   !.recognised = IF AtDelimiter THEN @ + 1 ELSE @]
    /\ UNCHANGED <<hdr, val, doc>>

\* The loop has ended: the function returns
SplitReturn ==
    /\ qas.phase = "scan"
    /\ qas.st.i >= Len(qas.s)
    /\ qas' = [qas EXCEPT !.phase = "returned", !.out = SplitFinish(qas.st),
                   !.starts = Append(@, qas.tok_start)]
    /\ UNCHANGED <<hdr, val, doc>>

NextSplit == SplitScan \/ SplitReturn

SpecSplit == InitSplit /\ [][NextSplit]_vars

(***************************************************************************)
(* A caller of parse_field.  It writes a header either character by        *)
(* character, or as the text of a declaration it has in mind (decl), and   *)
(* then calls parse_field; _parse_component_list is followed as the caller *)
(* of _parse_field on one raw component at a depth and with the            *)
(* delimiters in scope.                                                    *)
(***************************************************************************)

RawHeaderAlphabet == {"a", "[", "]", "(", ")", "^"}

\* A declaration: name, arr ("" for no brackets, "[]" for empty brackets,
\* else the delimiter written between the brackets), st ("" for no struct
\* body, "(" for a body with no delimiter written before it, else the
\* delimiter written before "(") and the declarations of the components
DeclDelimiters == {"~", "^", ";"}
ArrChoices == {"", "[]"} \cup DeclDelimiters
StChoices == {"("} \cup DeclDelimiters

Decl(name, arr, st, comps) == [name |-> name, arr |-> arr, st |-> st, comps |-> comps]
NoDecl == Decl(<< >>, "", "", << >>)

\* The delimiters a declaration stands for
DeclArrayDelim(d) == IF d.arr = "[]" THEN DEFAULT_ARRAY_DELIM ELSE d.arr
DeclCompDelim(d) == IF d.st = "(" THEN DEFAULT_COMP_DELIM ELSE d.st

RECURSIVE DeclText(_), DeclBody(_, _, _)
\* The header text of a declaration
DeclText(d) ==
    d.name
      \o (IF d.arr = "" THEN << >> ELSE IF d.arr = "[]" THEN <<"[", "]">>
          ELSE <<"[", d.arr, "]">>)
      \o (IF d.st = "" THEN << >>
          ELSE (IF d.st = "(" THEN << >> ELSE <<d.st>>)
                 \o <<"(">> \o DeclBody(d.comps, 1, DeclCompDelim(d)) \o <<")">>)

\* The component declarations from the k-th on, joined by the delimiter
DeclBody(comps, k, cd) ==
    IF k > Len(comps) THEN << >>
    ELSE DeclText(comps[k])
           \o (IF k < Len(comps) THEN <<cd>> ELSE << >>)
           \o DeclBody(comps, k + 1, cd)

\* address[~]^(street~city) and location^(name^coords^(lat^lon)), from
\* tests/test_validation.py
ReuseInBody ==
    <<"a","d","d","r","e","s","s","[","~","]","^","(",
      "s","t","r","e","e","t","~","c","i","t","y",")">>
ReuseInNested ==
    <<"l","o","c","a","t","i","o","n","^","(","n","a","m","e","^",
      "c","o","o","r","d","s","^","(","l","a","t","^","l","o","n",")",")">>
\* a[~]^(b;(c:(d@(e$(f))))), from test_deep_nesting_warns
DeepNesting == <<"a", "[", "~", "]", "^", "(", "b", ";", "(", "c", ":", "(", "d", "@", "(", "e", "$", "(", "f", ")", ")", ")", ")", ")">>
\* Two sibling components with the same array delimiter
SiblingArrays == <<"a", "^", "(", "b", "[", ";", "]", "^", "c", "[", ";", "]", ")">>
HeaderExamples == {ReuseInBody, ReuseInNested, DeepNesting, SiblingArrays}

\* The (depth, used_delimiters) of the calls followed at component level
ComponentCalls ==
    {<<1, {"^"}>>, <<1, {"^", "~"}>>, <<2, {"^", ";"}>>,
     <<4, {"~", ";", ":", "@"}>>, <<5, {"~", ";", ":", "@", "$"}>>}

\* The (comp_delim, depth, used_delimiters) of the calls followed on a
\* struct body: the body of a^(...), of a^(a;(...)) and of a;(...)
ComponentListCalls ==
    {<<"^", 1, {"^"}>>, <<";", 2, {"^", ";"}>>, <<";", 1, {";"}>>}

\* The depths of the innermost calls of _parse_field when parse_field is
\* given a header of 497, 498 or 499 structs, each in the one before, under
\* component delimiters that differ from each other and from the characters
\* of the innermost declaration ("~" stands for them)
DeepCalls == {<<497, {"~"}>>, <<498, {"~"}>>, <<499, {"~"}>>}

NoOutcome == Raise("", 0)

HdrWriting(mode, decl, header) ==
    [phase |-> "write", mode |-> mode, decl |-> decl, header |-> header,
     depth |-> 0, used |-> {}, comp_delim |-> "", scanned |-> NoOutcome,
     out |-> NoOutcome]

InitHeader ==
    /\ \/ hdr = HdrWriting("raw", NoDecl, << >>)
       \/ \E h \in HeaderExamples : hdr = HdrWriting("example", NoDecl, h)
       \/ \E arr \in ArrChoices :
             LET d == Decl(<<"a">>, arr, "", << >>)
             IN  hdr = HdrWriting("decl", d, DeclText(d))
    /\ qas = Idle /\ val = Idle /\ doc = Idle

\* The caller writes one more character
HdrType ==
    /\ hdr.phase = "write" /\ hdr.mode = "raw"
    /\ Len(hdr.header) < MaxRawHeaderLen
    /\ \E c \in RawHeaderAlphabet : hdr' = [hdr EXCEPT !.header = Append(@, c)]
    /\ UNCHANGED <<qas, val, doc>>

\* The caller makes its declaration a component of a new struct, alone,
\* beside a scalar component or beside a copy of itself
HdrNest ==
    /\ hdr.phase = "write" /\ hdr.mode = "decl"
    /\ \E arr \in ArrChoices,
          st \in StChoices,
          comps \in {<<hdr.decl>>,
                     <<Decl(<<"b">>, "", "", << >>), hdr.decl>>,
                     <<hdr.decl, Decl(<<"b">>, "", "", << >>)>>,
                     <<hdr.decl, hdr.decl>>} :
          LET d == Decl(<<"a">>, arr, st, comps)
          IN  /\ Len(DeclText(d)) <= MaxDeclLen
              /\ hdr' = [hdr EXCEPT !.decl = d, !.header = DeclText(d)]
    /\ UNCHANGED <<qas, val, doc>>

\* parse_field(header); scanned is what its call of _parse_field gave
HdrParseField ==
    /\ hdr.phase = "write"
    /\ hdr' = [hdr EXCEPT !.phase = "parsed",
                   !.scanned = parse_field_at(hdr.header, 0, 0, {}),
                   !.out = parse_field(hdr.header)]
    /\ UNCHANGED <<qas, val, doc>>

\* _parse_field(raw, pos=0, depth, used_delimiters), as _parse_component_list
\* calls it
HdrParseComponent ==
    /\ hdr.phase = "write" /\ hdr.mode = "raw"
    /\ \E call \in ComponentCalls :
          hdr' = [hdr EXCEPT !.phase = "parsed", !.mode = "component",
                      !.depth = call[1], !.used = call[2],
                      !.scanned = parse_field_at(hdr.header, 0, call[1], call[2]),
                      !.out = parse_field_at(hdr.header, 0, call[1], call[2])]
    /\ UNCHANGED <<qas, val, doc>>

\* _parse_component_list(body, comp_delim, depth, used_delimiters), as
\* _parse_field calls it on a struct body; out holds the components in a
\* StructField without name
HdrParseComponentList ==
    /\ hdr.phase = "write" /\ hdr.mode = "raw"
    /\ \E call \in ComponentListCalls :
          hdr' = [hdr EXCEPT !.phase = "parsed", !.mode = "body",
                      !.comp_delim = call[1], !.depth = call[2], !.used = call[3],
                      !.out = parse_component_list(hdr.header, call[1], call[2], call[3])]
    /\ UNCHANGED <<qas, val, doc>>

\* _parse_field(raw, pos=0, depth, used_delimiters) on the innermost
\* declaration of a header nested some hundred deep
HdrParseDeep ==
    /\ hdr.phase = "write" /\ hdr.mode = "raw"
    /\ \E call \in DeepCalls :
          hdr' = [hdr EXCEPT !.phase = "parsed", !.mode = "deep",
                      !.depth = call[1], !.used = call[2],
                      !.scanned = parse_field_at(hdr.header, 0, call[1], call[2]),
                      !.out = parse_field_at(hdr.header, 0, call[1], call[2])]
    /\ UNCHANGED <<qas, val, doc>>

NextHeader ==
    \/ HdrType \/ HdrNest \/ HdrParseField \/ HdrParseComponent
    \/ HdrParseComponentList \/ HdrParseDeep

SpecHeader == InitHeader /\ [][NextHeader]_vars

(***************************************************************************)
(* A caller of parse_value.  The schema is what parse_field made of a      *)
(* header; the caller writes the raw text character by character and       *)
(* calls parse_value with or without the quoted flag, and may then use     *)
(* the same schema for a further call.                                     *)
(***************************************************************************)

ValueAlphabet == {"p", QUOTE, "^", "~"}

\* a, a[~], a^(x^y), a[~]^(x^y), a^(y^x[~]), a^(x[~]) and a^(x~(p~q)^y)
SchemaHeaders ==
    { <<"a">>,
      <<"a", "[", "~", "]">>,
      <<"a", "^", "(", "x", "^", "y", ")">>,
      <<"a", "[", "~", "]", "^", "(", "x", "^", "y", ")">>,
      <<"a", "^", "(", "y", "^", "x", "[", "~", "]", ")">>,
      <<"a", "^", "(", "x", "[", "~", "]", ")">>,
      <<"a", "^", "(", "x", "~", "(", "p", "~", "q", ")", "^", "y", ")">> }

ValueSchemas == {parse_field(h).field : h \in SchemaHeaders}

NoValue == VRaise("")

\* "urgent||priority" for tags[|], from tests/test_arrays.py, and "34.05"
\* for geo^(lat^lon)
UrgentPriority == <<"u", "r", "g", "e", "n", "t", "|", "|", "p", "r", "i", "o", 
                   "r", "i", "t", "y">>
TagsHeader == <<"t", "a", "g", "s", "[", "|", "]">>
OnlyLat == <<"3", "4", ".", "0", "5">>
GeoHeader == <<"g", "e", "o", "^", "(", "l", "a", "t", "^", "l", "o", "n", ")">>
\* a[~]^(x^y) with "p"^q~r^s and with p^"q~q"~r^s
ArrayOfStructsHeader == <<"a", "[", "~", "]", "^", "(", "x", "^", "y", ")">>
QuotedFirstLeaf == <<QUOTE, "p", QUOTE, "^", "q", "~", "r", "^", "s">>
QuotedLaterLeaf == <<"p", "^", QUOTE, "q", "~", "q", QUOTE, "~", "r", "^", "s">>
ValueExamples ==
    {<<TagsHeader, UrgentPriority>>, <<GeoHeader, OnlyLat>>,
     <<ArrayOfStructsHeader, QuotedFirstLeaf>>,
     <<ArrayOfStructsHeader, QuotedLaterLeaf>>}

\* The caller's view of a call: given is the schema as parse_field built
\* it, schema the same object as the calls leave it, calls the number of
\* calls made on it
ValWriting(schema, raw) ==
    [phase |-> "write", schema |-> schema, given |-> schema, raw |-> raw,
     was_quoted |-> FALSE, out |-> NoValue, calls |-> 0]

InitValue ==
    /\ \/ \E schema \in ValueSchemas : val = ValWriting(schema, << >>)
       \/ \E x \in ValueExamples : val = ValWriting(parse_field(x[1]).field, x[2])
    /\ hdr = Idle /\ qas = Idle /\ doc = Idle

\* The caller writes one more character of the raw value
ValType ==
    /\ val.phase = "write"
    /\ Len(val.raw) < MaxValueLen
    /\ \E c \in ValueAlphabet : val' = [val EXCEPT !.raw = Append(@, c)]
    /\ UNCHANGED <<hdr, qas, doc>>

\* A variant in which decoding a struct takes its last component off the
\* schema
SchemaAfter_Consumed(raw, schema, was_quoted) ==
    IF schema.kind = "StructField" /\ schema.components # << >>
    THEN [schema EXCEPT !.components = SubSeq(@, 1, Len(@) - 1)]
    ELSE schema

\* The schema object after parse_value(raw, schema, was_quoted): parse_value,
\* _parse_array and _parse_struct read schema.name, .delimiter, .element_type,
\* .component_delimiter and .components and assign to none of them, and the
\* lists and dicts they return are built in the call
SchemaAfter(raw, schema, was_quoted) == schema

\* parse_value(raw, schema, was_quoted)
ValParse ==
    /\ val.phase = "write"
    /\ \E was_quoted \in BOOLEAN :
          val' = [val EXCEPT !.phase = "parsed", !.was_quoted = was_quoted,
                      !.out = parse_value(val.raw, val.schema, was_quoted),
                      !.schema = SchemaAfter(val.raw, val.schema, was_quoted),
                      !.calls = @ + 1]
    /\ UNCHANGED <<hdr, qas, doc>>

\* The caller takes the schema to a further call, on a new raw value
ValAgain ==
    /\ val.phase = "parsed"
    /\ val.calls < MaxCalls
    /\ val' = [val EXCEPT !.phase = "write", !.raw = << >>,
                   !.was_quoted = FALSE, !.out = NoValue]
    /\ UNCHANGED <<hdr, qas, doc>>

NextValue == ValType \/ ValParse \/ ValAgain

SpecValue == InitValue /\ [][NextValue]_vars

(***************************************************************************)
(* A caller of parse.  It starts from a header line or from a whole        *)
(* document, writes the characters of the data rows one by one, may write  *)
(* the line ends as CRLF or CR instead of LF, and calls parse.  The field  *)
(* separator is "," unless the document comes with its own.                *)
(***************************************************************************)

RowAlphabet == {"p", QUOTE, ",", "^", "\n"}

\* The header lines a and a^(x^y) and a,b[~], and the empty line
ScalarHeaderLine == <<"a", "\n">>
StructHeaderLine == <<"a", "^", "(", "x", "^", "y", ")", "\n">>
TwoColumnHeaderLine == <<"a", ",", "b", "[", "~", "]", "\n">>
EmptyHeaderLine == <<"\n">>
SameNameHeaderLine == <<"a", ",", "a", "\n">>
HeaderLines ==
    {ScalarHeaderLine, StructHeaderLine, TwoColumnHeaderLine, EmptyHeaderLine,
     SameNameHeaderLine}

\* The document of tests/test_quoting.py, test_quoted_component_with_comma
LeafQuotedDocument ==
    <<"i", "d", ",", "a", "d", "d", "r", "e", "s", "s", "^", "(", "s", "t",
      "r", "e", "e", "t", "^", "c", "i", "t", "y", "^", "s", "t", "a", "t",
      "e", "^", "z", "i", "p", ")", "\n", "1", ",", QUOTE, "1", "2", "3",
      " ", "M", "a", "i", "n", " ", "S", "t", ",", " ", "A", "p", "t", " ",
      "4", QUOTE, "^", "S", "p", "r", "i", "n", "g", "f", "i", "e", "l",
      "d", "^", "I", "L", "^", "6", "2", "7", "0", "1", "\n">>

\* A scalar column whose cell is "say ""hi"" there"
DoubledQuoteDocument ==
    <<"a", "\n", QUOTE, "s", "a", "y", " ", QUOTE, QUOTE, "h", "i", QUOTE,
      QUOTE, " ", "t", "h", "e", "r", "e", QUOTE, "\n">>

\* Rows between an empty line, a line of one space and a line of one tab
BlankLinesDocument ==
    <<"a", "\n", " ", "\n", "p", "\n", "\n", "q", "\n", "\t", "\n">>

\* A row that fails after a row that decodes, and a row after it
FailingRowDocument ==
    <<"a", "^", "(", "x", ")", "\n", "p", "\n", "p", "^", "p", "\n", "q", "\n">>

\* Headers that fail: a[ (syntax) and a^(x^(y)) (delimiter conflict)
UnclosedHeaderDocument == <<"a", "[", "\n", "p", "\n">>
ConflictHeaderDocument ==
    <<"a", "^", "(", "x", "^", "(", "y", ")", ")", "\n", "p", "\n">>

\* id,name with one row, terminated by CRLF, from tests/test_parser.py
CrLfDocument ==
    <<"i", "d", ",", "n", "a", "m", "e", "\r", "\n",
      "1", ",", "A", "l", "i", "c", "e", "\r", "\n">>

\* The texts of test_empty_document_raises and test_header_only_no_records
EmptyDocument == << >>
HeaderOnlyDocument == <<"i", "d", ",", "n", "a", "m", "e", "\n">>

Documents ==
    {LeafQuotedDocument, DoubledQuoteDocument, BlankLinesDocument,
     FailingRowDocument, UnclosedHeaderDocument, ConflictHeaderDocument,
     CrLfDocument, EmptyDocument, HeaderOnlyDocument}

\* Documents written with the field separator "||": a||b with the rows
\* p||q and "p||q"||r
DoubleBar == <<"|", "|">>
DoubleBarDocument ==
    <<"a", "|", "|", "b", "\n", "p", "|", "|", "q", "\n">>
DoubleBarQuotedDocument ==
    <<"a", "|", "|", "b", "\n",
      QUOTE, "p", "|", "|", "q", QUOTE, "|", "|", "r", "\n">>
DoubleBarDocuments == {DoubleBarDocument, DoubleBarQuotedDocument}

NoRecords == PRaise("")

DocWriting(phase, header_line, field_sep) ==
    [phase |-> phase, header_line |-> header_line, rows |-> << >>,
     field_sep |-> field_sep, eol |-> <<"\n">>, text |-> header_line,
     out |-> NoRecords]

InitDoc ==
    /\ \/ \E h \in HeaderLines : doc = DocWriting("write", h, <<",">>)
       \/ \E d \in Documents : doc = DocWriting("written", d, <<",">>)
       \/ \E d \in DoubleBarDocuments : doc = DocWriting("written", d, DoubleBar)
    /\ hdr = Idle /\ qas = Idle /\ val = Idle

\* The caller writes one more character of the data rows
DocType ==
    /\ doc.phase = "write"
    /\ Len(doc.rows) < MaxRowLen
    /\ \E c \in RowAlphabet :
          doc' = [doc EXCEPT !.rows = Append(@, c), !.text = Append(@, c)]
    /\ UNCHANGED <<hdr, qas, val>>

RECURSIVE WithEol(_, _, _)
\* The text from index i on with every "\n" written as eol
WithEol(text, eol, i) ==
    IF i > Len(text) THEN << >>
    ELSE (IF text[i] = "\n" THEN eol ELSE <<text[i]>>) \o WithEol(text, eol, i + 1)

\* The caller writes the line ends of a text without quotes as CRLF or as CR
DocRespell ==
    /\ doc.phase = "write"
    /\ \A i \in 1..Len(doc.rows) : doc.rows[i] # QUOTE
    /\ \E eol \in {<<"\r", "\n">>, <<"\r">>} :
          doc' = [doc EXCEPT !.phase = "written", !.eol = eol,
                      !.text = WithEol(doc.text, eol, 1)]
    /\ UNCHANGED <<hdr, qas, val>>

\* parse(text, field_sep)
DocParse ==
    /\ doc.phase \in {"write", "written"}
    /\ doc' = [doc EXCEPT !.phase = "parsed",
                   !.out = parse(doc.text, doc.field_sep)]
    /\ UNCHANGED <<hdr, qas, val>>

NextDoc == DocType \/ DocRespell \/ DocParse

SpecDoc == InitDoc /\ [][NextDoc]_vars

(***************************************************************************)
(* Properties of parse_field                                               *)
(***************************************************************************)

HdrParsed == hdr.phase = "parsed"
HdrCalledParseField == HdrParsed /\ hdr.mode \in {"raw", "decl", "example"}
HdrDeclParsed == HdrParsed /\ hdr.mode = "decl"

RECURSIVE DistinctOnPaths(_, _)
\* No delimiter of the field is in used, nor is one met twice on the way
\* from the field down to a leaf
DistinctOnPaths(f, used) ==
    IF f.kind = "ArrayField"
    THEN /\ f.delimiter \notin used
         /\ DistinctOnPaths(f.element_type[1], used \cup {f.delimiter})
    ELSE IF f.kind = "StructField"
    THEN /\ f.component_delimiter \notin used
         /\ \A k \in 1..Len(f.components) :
               DistinctOnPaths(f.components[k], used \cup {f.component_delimiter})
    ELSE TRUE

RECURSIVE PathDelims(_)
\* The largest number of delimiters on a path from the field to a leaf
PathDelims(f) ==
    IF f.kind = "ArrayField" THEN 1 + PathDelims(f.element_type[1])
    ELSE IF f.kind = "StructField"
    THEN 1 + (CHOOSE m \in 0..MaxDeclLen :
                /\ \A k \in 1..Len(f.components) : PathDelims(f.components[k]) <= m
                /\ \/ m = 0
                   \/ \E k \in 1..Len(f.components) : PathDelims(f.components[k]) = m)
    ELSE 0

\* C1: in every Field that parse_field returns (and that _parse_field
\* returns for a component, with the delimiters of the enclosing levels in
\* scope) the delimiters on every path from the root down, array delimiters
\* and component delimiters, are pairwise distinct, and an array of structs
\* never has its array delimiter equal to its own component delimiter
C1_DelimitersDistinctOnPaths ==
    (HdrParsed /\ hdr.out.ok) => DistinctOnPaths(hdr.out.field, hdr.used)

\* A Field with three delimiters on one path has been returned
C1_Witness ==
    /\ HdrCalledParseField /\ hdr.out.ok
    /\ PathDelims(hdr.out.field) >= 3
    /\ DistinctOnPaths(hdr.out.field, {})

RECURSIVE DeclReuse(_, _)
\* The declaration uses a delimiter that is in used, or uses one delimiter
\* at two levels on the way down
DeclReuse(d, used) ==
    LET a == IF d.arr = "" THEN {} ELSE {DeclArrayDelim(d)}
        c == IF d.st = "" THEN {} ELSE {DeclCompDelim(d)}
    IN  \/ a \cap used # {}
        \/ c \cap (used \cup a) # {}
        \/ \E k \in 1..Len(d.comps) : DeclReuse(d.comps[k], used \cup a \cup c)

RECURSIVE HasEmptyBrackets(_)
HasEmptyBrackets(d) ==
    \/ d.arr = "[]"
    \/ \E k \in 1..Len(d.comps) : HasEmptyBrackets(d.comps[k])

\* The declaration has an array with empty brackets below its top level
NestedEmpty(d) == \E k \in 1..Len(d.comps) : HasEmptyBrackets(d.comps[k])

\* Every declaration without a reused delimiter and without nested empty
\* brackets is accepted: reuse is the only defect of the others
ValidDeclAccepted ==
    (HdrDeclParsed /\ ~DeclReuse(hdr.decl, {}) /\ ~NestedEmpty(hdr.decl))
        => (hdr.out.ok /\ hdr.out.warned = 0)

\* C2: parse_field fails with DelimiterConflictError, not HeaderParseError,
\* on every header whose only defect is a delimiter (written or default,
\* array or component) that is already in scope on its nesting path or
\* that an array shares with its own struct, as address[~]^(street~city)
\* and location^(name^coords^(lat^lon))
C2_ReuseIsDelimiterConflict ==
    /\ (HdrDeclParsed /\ DeclReuse(hdr.decl, {}) /\ ~NestedEmpty(hdr.decl))
          => (~hdr.out.ok /\ hdr.out.err = DelimiterConflictError)
    /\ (HdrParsed /\ hdr.header \in {ReuseInBody, ReuseInNested})
          => (~hdr.out.ok /\ hdr.out.err = DelimiterConflictError)
    /\ ValidDeclAccepted

\* A struct two levels down reuses the delimiter of the outermost struct
C2_Witness ==
    /\ HdrDeclParsed /\ ~NestedEmpty(hdr.decl)
    /\ hdr.decl.arr = "" /\ ~DeclReuse(Decl(hdr.decl.name, "", hdr.decl.st, << >>), {})
    /\ \E k \in 1..Len(hdr.decl.comps) :
          /\ ~DeclReuse(hdr.decl.comps[k], {})
          /\ DeclReuse(hdr.decl.comps[k], {DeclCompDelim(hdr.decl)})
          /\ hdr.decl.comps[k].arr # ""
    /\ hdr.out.err = DelimiterConflictError

\* The text opens with a name followed by empty brackets
OpensWithEmptyBrackets(s) ==
    /\ NameMatchEnd(s, 0) # -1
    /\ MatchAt(s, NameMatchEnd(s, 0), <<"[", "]">>)

\* At depth 0 empty brackets are accepted and give the delimiter "~"
TopLevelEmptyBracketsAccepted ==
    (HdrDeclParsed /\ hdr.decl.arr = "[]" /\ ~NestedEmpty(hdr.decl)
       /\ ~DeclReuse(hdr.decl, {}))
        => /\ hdr.out.ok
           /\ hdr.out.field.kind = "ArrayField"
           /\ hdr.out.field.delimiter = DEFAULT_ARRAY_DELIM

\* The claim C3 as it stands: at every depth greater than 0 an array with
\* empty brackets makes parse_field fail with HeaderParseError; empty
\* brackets are accepted only at depth 0
C3_NestedEmptyAlwaysHeaderParseError ==
    /\ (HdrDeclParsed /\ NestedEmpty(hdr.decl))
          => (~hdr.out.ok /\ hdr.out.err = HeaderParseError)
    /\ TopLevelEmptyBracketsAccepted

\* C3: at every depth greater than 0 an array with empty brackets makes
\* parse_field fail: _parse_field raises HeaderParseError on such a
\* component whatever delimiters are in scope, so a header none of whose
\* delimiters is reused fails with HeaderParseError, and a header that also
\* reuses a delimiter fails with HeaderParseError or, when the reuse is met
\* first, with DelimiterConflictError; empty brackets are accepted only at
\* depth 0
C3_NestedEmptyBracketsRejected ==
    /\ (HdrParsed /\ hdr.mode = "component" /\ hdr.depth > 0
          /\ OpensWithEmptyBrackets(hdr.header))
          => (~hdr.out.ok /\ hdr.out.err = HeaderParseError)
    /\ (HdrDeclParsed /\ NestedEmpty(hdr.decl))
          => /\ ~hdr.out.ok
             /\ hdr.out.err \in {HeaderParseError, DelimiterConflictError}
             /\ ~DeclReuse(hdr.decl, {}) => hdr.out.err = HeaderParseError
    /\ TopLevelEmptyBracketsAccepted

\* Empty brackets two levels down have been refused with HeaderParseError
C3_Witness ==
    /\ HdrDeclParsed /\ ~DeclReuse(hdr.decl, {})
    /\ \E k \in 1..Len(hdr.decl.comps) : NestedEmpty(hdr.decl.comps[k])
    /\ ~hdr.out.ok /\ hdr.out.err = HeaderParseError

RECURSIVE Renderings(_), StructRenderings(_), BodyRenderings(_, _, _)
\* The header texts that declare the field: a default delimiter may be
\* written out or left out
Renderings(f) ==
    IF f.kind = "ArrayField"
    THEN LET brackets == {<<"[", f.delimiter, "]">>}
                           \cup (IF f.delimiter = DEFAULT_ARRAY_DELIM
                                 THEN {<<"[", "]">>} ELSE {})
             rest == IF f.element_type[1].kind = "StructField"
                     THEN StructRenderings(f.element_type[1]) ELSE {<< >>}
         IN  {f.name \o b \o r : b \in brackets, r \in rest}
    ELSE IF f.kind = "StructField"
    THEN {f.name \o r : r \in StructRenderings(f)}
    ELSE {f.name}

\* The texts of the struct part: delimiter, "(", components, ")"
StructRenderings(f) ==
    LET cd == f.component_delimiter
        written == {<<cd>>} \cup (IF cd = DEFAULT_COMP_DELIM THEN {<< >>} ELSE {})
    IN  {w \o <<"(">> \o b \o <<")">> :
            w \in written, b \in BodyRenderings(f.components, 1, cd)}

\* The texts of the components from the k-th on, joined by the delimiter
BodyRenderings(components, k, cd) ==
    IF k > Len(components) THEN {<< >>}
    ELSE IF k = Len(components) THEN Renderings(components[k])
    ELSE {c \o <<cd>> \o b :
             c \in Renderings(components[k]),
             b \in BodyRenderings(components, k + 1, cd)}

\* C4: parse_field returns a Field only when one field declaration consumed
\* the whole header, so the header is a text of the Field it returns; when
\* _parse_field returns a complete field with characters left over (after a
\* name, after "]" or after ")"), parse_field fails with HeaderParseError
C4_WholeHeaderConsumed ==
    HdrCalledParseField =>
        /\ hdr.out.ok =>
              /\ hdr.scanned.ok /\ hdr.scanned.pos = Len(hdr.header)
              /\ hdr.out.field = hdr.scanned.field
              /\ hdr.header \in Renderings(hdr.out.field)
        /\ (hdr.scanned.ok /\ hdr.scanned.pos # Len(hdr.header))
              => (~hdr.out.ok /\ hdr.out.err = HeaderParseError)

\* A complete struct was followed by more characters after its ")"
C4_Witness ==
    /\ HdrCalledParseField
    /\ hdr.scanned.ok /\ hdr.scanned.field.kind = "StructField"
    /\ hdr.scanned.pos < Len(hdr.header)
    /\ At(hdr.header, hdr.scanned.pos - 1) = ")"
    /\ ~hdr.out.ok /\ hdr.out.err = HeaderParseError

RECURSIVE FieldNesting(_)
\* The number of struct bodies around the innermost field of a Field tree
FieldNesting(field) ==
    IF field.kind = "SimpleField" THEN 0
    ELSE IF field.kind = "ArrayField" THEN FieldNesting(field.element_type[1])
    ELSE 1 + (CHOOSE n \in 0..20 :
                /\ \A k \in 1..Len(field.components) :
                      FieldNesting(field.components[k]) <= n
                /\ \/ field.components = << >> /\ n = 0
                   \/ \E k \in 1..Len(field.components) :
                         FieldNesting(field.components[k]) = n)

\* The number of opening parentheses of the header: each struct body
\* takes one
ParenCount(s) == Cardinality({j \in 1..Len(s) : s[j] = "("})

\* An outcome of _parse_field without the count of its advisories
Unwarned(r) == [r EXCEPT !.warned = 0]

\* The Field tree of a[~]^(b;(c:(d@(e$(f)))))
DeepNestingField ==
    ArrayField(<<"a">>, "~",
      StructField(<<"a">>, "^",
        << StructField(<<"b">>, ";",
             << StructField(<<"c">>, ":",
                  << StructField(<<"d">>, "@",
                       << StructField(<<"e">>, "$",
                            << SimpleField(<<"f">>) >>) >>) >>) >>) >>))

\* The claim C23: parse_field emits the NestingDepthWarning advisory
\* exactly when a sub-field is parsed at a nesting depth above 4, the top
\* level being depth 0 and each enclosing struct body adding 1; the
\* advisory aborts nothing, and the Field tree returned or the error raised
\* is what it is without an advisory
C23_DepthAdvisoryOnly ==
    (hdr.phase = "parsed" /\ hdr.mode \in {"raw", "decl", "example", "component"}) =>
        /\ hdr.depth > 4 => hdr.scanned.warned > 0
        /\ hdr.scanned.ok =>
              (hdr.scanned.warned > 0
                  <=> hdr.depth + FieldNesting(hdr.scanned.field) > 4)
        /\ hdr.depth + ParenCount(hdr.header) <= 4 => hdr.scanned.warned = 0
        /\ hdr.out.warned = hdr.scanned.warned
        /\ hdr.depth >= 1 =>
              Unwarned(hdr.scanned)
                 = Unwarned(parse_field_at(hdr.header, 0, 1, hdr.used))
        /\ hdr.header = DeepNesting =>
              hdr.out = Return(DeepNestingField, Len(DeepNesting), 1)

\* The header of the test, whose innermost field f is at depth 5
C23_Witness ==
    /\ hdr.phase = "parsed" /\ hdr.header = DeepNesting
    /\ hdr.out.ok /\ hdr.out.warned > 0
    /\ FieldNesting(hdr.out.field) = 5

RECURSIVE DeclDelims(_)
\* The delimiters that a declaration and its components use
DeclDelims(d) ==
    (IF d.arr = "" THEN {} ELSE {DeclArrayDelim(d)})
       \cup (IF d.st = "" THEN {} ELSE {DeclCompDelim(d)})
       \cup UNION {DeclDelims(d.comps[k]) : k \in 1..Len(d.comps)}

RECURSIVE SiblingsShareDelimiter(_)
\* Two components of one struct of the declaration use a same delimiter
SiblingsShareDelimiter(d) ==
    \/ \E i, j \in 1..Len(d.comps) :
          i # j /\ DeclDelims(d.comps[i]) \cap DeclDelims(d.comps[j]) # {}
    \/ \E k \in 1..Len(d.comps) : SiblingsShareDelimiter(d.comps[k])

RECURSIVE DeclField(_)
\* The Field tree of a declaration
DeclField(d) ==
    LET components == [k \in 1..Len(d.comps) |-> DeclField(d.comps[k])]
        inner == IF d.st = "" THEN SimpleField(d.name)
                 ELSE StructField(d.name, DeclCompDelim(d), components)
    IN  IF d.arr = "" THEN inner ELSE ArrayField(d.name, DeclArrayDelim(d), inner)

\* The claim C24: the sibling components of one struct are parsed against
\* one delimiter set, that of the ancestors with the component delimiter
\* and the array delimiter of the struct; a delimiter chosen in the subtree
\* of one sibling is not in use for another, so that a header whose sibling
\* components use the same nested delimiter, as a^(b[;]^c[;]), is accepted,
\* and a header that uses a delimiter twice on one path is rejected
C24_SiblingsShareOneDelimiterSet ==
    /\ (HdrDeclParsed /\ SiblingsShareDelimiter(hdr.decl)
           /\ ~DeclReuse(hdr.decl, {}) /\ ~NestedEmpty(hdr.decl)) =>
          hdr.out = Return(DeclField(hdr.decl), Len(hdr.header), 0)
    /\ (HdrDeclParsed /\ SiblingsShareDelimiter(hdr.decl)
           /\ DeclReuse(hdr.decl, {})) => ~hdr.out.ok
    /\ (HdrParsed /\ hdr.header = SiblingArrays) =>
          hdr.out =
             Return(StructField(<<"a">>, "^",
                       << ArrayField(<<"b">>, ";", SimpleField(<<"b">>)),
                          ArrayField(<<"c">>, ";", SimpleField(<<"c">>)) >>),
                    Len(SiblingArrays), 0)

\* a^(a[;]^a[;]) and the like: the siblings are an array and its copy
C24_Witness ==
    /\ HdrDeclParsed /\ SiblingsShareDelimiter(hdr.decl)
    /\ ~DeclReuse(hdr.decl, {})
    /\ Len(hdr.decl.comps) = 2 /\ hdr.decl.comps[1].arr = ";"
    /\ hdr.out.ok

\* The text does not begin with a character of a name
LacksName(text) == text = << >> \/ text[1] \notin FieldChars

\* The header is a(body) and body is the whole struct body
IsStructOfBody(header) ==
    /\ Len(header) >= 3
    /\ header[1] = "a" /\ header[2] = "(" /\ header[Len(header)] = ")"
    /\ CloseParenFrom(header, 2, 1) = [pos |-> Len(header), depth_count |-> 0]

\* The text of the first component of a(body)
FirstComponent(header) ==
    bracket_aware_split(SubSeq(header, 3, Len(header) - 1), <<DEFAULT_COMP_DELIM>>)[1]

\* The claim C25: every field declaration, at the top level or as a
\* component of a struct, starts with a name.  When the text where a field
\* is expected does not begin with a character of [A-Za-z0-9_-] (an empty
\* component, or one that begins with "(", "[" or another character),
\* parsing fails with HeaderParseError
C25_FieldStartsWithName ==
    /\ (HdrParsed /\ hdr.mode \in {"raw", "component"} /\ LacksName(hdr.header)) =>
          (~hdr.out.ok /\ hdr.out.err = HeaderParseError)
    /\ (HdrParsed /\ hdr.mode = "raw" /\ IsStructOfBody(hdr.header)
           /\ LacksName(FirstComponent(hdr.header))) =>
          (~hdr.out.ok /\ hdr.out.err = HeaderParseError)

\* The raw components of the struct body that was parsed
BodyComponents == bracket_aware_split(hdr.header, <<hdr.comp_delim>>)

\* Component k of the body is one field and nothing else
WhollyOneField(k) ==
    /\ ~StartsWith(BodyComponents[k], <<"(">>)
    /\ LET r == parse_field_at(BodyComponents[k], 0, hdr.depth, hdr.used)
       IN  r.ok /\ r.pos = Len(BodyComponents[k])

\* Component k of the body begins with a field that leaves a suffix; the
\* suffix, or the empty text when that is not so
UnconsumedSuffix(k) ==
    LET r == parse_field_at(BodyComponents[k], 0, hdr.depth, hdr.used)
    IN  IF ~StartsWith(BodyComponents[k], <<"(">>) /\ r.ok /\ r.pos < Len(BodyComponents[k])
        THEN SliceFrom(BodyComponents[k], r.pos) ELSE << >>

\* The claim C26: for a struct component whose text one field does not
\* consume wholly, the error is DelimiterConflictError exactly when the
\* unconsumed suffix begins with a delimiter in scope (one of an ancestor,
\* or the component or array delimiter of the struct), and
\* HeaderParseError for every other suffix
C26_UnconsumedSuffixError ==
    (HdrParsed /\ hdr.mode = "body") =>
        \A k \in 1..Len(BodyComponents) :
            ((\A i \in 1..(k - 1) : WhollyOneField(i)) /\ UnconsumedSuffix(k) # << >>) =>
                /\ ~hdr.out.ok
                /\ hdr.out.err = DelimiterConflictError
                      <=> UnconsumedSuffix(k)[1] \in hdr.used
                /\ hdr.out.err = HeaderParseError
                      <=> UnconsumedSuffix(k)[1] \notin hdr.used

\* The body a^a of the inner struct of a^(a;(a^a)): its one component
\* leaves ^a
C26_Witness ==
    /\ HdrParsed /\ hdr.mode = "body" /\ hdr.comp_delim = ";"
    /\ hdr.used = {"^", ";"}
    /\ Len(BodyComponents) = 1
    /\ UnconsumedSuffix(1) = <<"^", "a">>
    /\ hdr.out = Raise(DelimiterConflictError, 0)

\* The outcomes the header parser documents: a Field tree, or one of the
\* two typed header errors
TypedOutcome(r) == r.ok \/ r.err \in {HeaderParseError, DelimiterConflictError}

\* The claim C27: parse_field is total: on every header its outcome is a
\* Field tree or one of the two typed header errors, HeaderParseError and
\* DelimiterConflictError, and never an untyped failure, at whatever depth
\* of the header the call of _parse_field is; and each recursive call works
\* on a string strictly shorter than its caller's, the components of a
\* struct body being no longer than the body, which lacks the name and the
\* parentheses of the caller's string
C27_ParseFieldTotal ==
    /\ HdrParsed => TypedOutcome(hdr.out)
    /\ (HdrParsed /\ hdr.mode = "body") =>
          \A i \in DOMAIN bracket_aware_split(hdr.header, <<hdr.comp_delim>>) :
              Len(bracket_aware_split(hdr.header, <<hdr.comp_delim>>)[i])
                  <= Len(hdr.header)

(***************************************************************************)
(* Properties of parse_value                                               *)
(***************************************************************************)

ValParsed == val.phase = "parsed"

\* The schemas of the values a non-leaf value splits into: the element
\* type for each token of an array, the components of a struct
PartSchemas(schema, n) ==
    IF schema.kind = "ArrayField" THEN [k \in 1..n |-> schema.element_type[1]]
    ELSE schema.components

\* The tokens of a non-leaf value with their quoted flags; none for an
\* empty array value and for a struct without components
Parts(raw, schema) ==
    IF schema.kind = "ArrayField"
    THEN IF raw = << >> THEN [values |-> << >>, quoted_flags |-> << >>]
         ELSE quote_aware_split(raw, <<schema.delimiter>>)
    ELSE IF schema.components = << >> THEN [values |-> << >>, quoted_flags |-> << >>]
         ELSE quote_aware_split(raw, <<schema.component_delimiter>>)

RECURSIVE QuotedNonLeafSomewhere(_, _, _)
\* A quoted flag is true for a value whose schema is an array or a struct:
\* for this value, or for a token of it at any depth
QuotedNonLeafSomewhere(raw, schema, flag) ==
    /\ ~IsLeaf(schema)
    /\ \/ flag
       \/ LET sp == Parts(raw, schema)
              schemas == PartSchemas(schema, Len(sp.values))
          IN  \E k \in 1..Len(sp.values) :
                 /\ k <= Len(schemas)
                 /\ QuotedNonLeafSomewhere(sp.values[k], schemas[k],
                                           sp.quoted_flags[k])

RECURSIVE FirstFailure(_, _, _), FirstFailureFrom(_, _, _)
\* The first failure met when each value is decoded with its own quoted
\* flag, in order: "" when there is none
FirstFailure(raw, schema, flag) ==
    IF IsLeaf(schema) THEN ""
    ELSE IF flag THEN InvalidQuotingError
    ELSE LET sp == Parts(raw, schema)
             schemas == PartSchemas(schema, Len(sp.values))
         IN  IF Len(sp.values) > Len(schemas) THEN ValueParseError
             ELSE FirstFailureFrom(sp, schemas, 1)

FirstFailureFrom(sp, schemas, k) ==
    IF k > Len(sp.values) THEN ""
    ELSE LET e == FirstFailure(sp.values[k], schemas[k], sp.quoted_flags[k])
         IN  IF e # "" THEN e ELSE FirstFailureFrom(sp, schemas, k + 1)

\* A Scalar schema returns the raw text unchanged whatever the flag
ScalarReturnsRaw ==
    (ValParsed /\ IsLeaf(val.schema))
        => (val.out.ok /\ val.out.value = VStr(val.raw))

\* The claim C5 as it stands: parse_value fails with InvalidQuotingError
\* whenever a quoted flag is true for a value whose schema is an array or a
\* struct, at any nesting depth, and a Scalar schema returns the raw text
C5_QuotedNonLeafAlwaysInvalidQuoting ==
    /\ (ValParsed /\ QuotedNonLeafSomewhere(val.raw, val.schema, val.was_quoted))
          => (~val.out.ok /\ val.out.err = InvalidQuotingError)
    /\ ScalarReturnsRaw

\* C5: when a quoted flag is true for a value whose schema is an array or a
\* struct, at any depth, parse_value returns no value: it fails with
\* InvalidQuotingError when that value is the first failure met in decoding
\* order, which the top-level value always is, and with ValueParseError
\* when a struct with more parts than components is met first; a Scalar
\* schema returns the raw text unchanged whatever the flag
C5_QuotedNonLeafFails ==
    /\ (ValParsed /\ QuotedNonLeafSomewhere(val.raw, val.schema, val.was_quoted))
          => /\ ~val.out.ok
             /\ val.out.err \in {InvalidQuotingError, ValueParseError}
             /\ val.out.err = FirstFailure(val.raw, val.schema, val.was_quoted)
    /\ (ValParsed /\ val.was_quoted /\ ~IsLeaf(val.schema))
          => (~val.out.ok /\ val.out.err = InvalidQuotingError)
    /\ ScalarReturnsRaw

\* A quoted array component of a struct, after a component that decoded,
\* has been refused with InvalidQuotingError
C5_Witness ==
    /\ ValParsed /\ ~val.was_quoted /\ val.schema.kind = "StructField"
    /\ LET sp == Parts(val.raw, val.schema) IN
          /\ Len(sp.values) = 2 /\ Len(val.schema.components) = 2
          /\ ~sp.quoted_flags[1]
          /\ sp.quoted_flags[2] /\ ~IsLeaf(val.schema.components[2])
    /\ ~val.out.ok /\ val.out.err = InvalidQuotingError

RECURSIVE PlainSplit(_, _, _, _)
\* raw split at every occurrence of the character d, from index i on, with
\* the parts closed so far and the part being read
PlainSplit(raw, d, i, acc) ==
    IF i > Len(raw) THEN <<acc>>
    ELSE IF raw[i] = d THEN <<acc>> \o PlainSplit(raw, d, i + 1, << >>)
    ELSE PlainSplit(raw, d, i + 1, Append(acc, raw[i]))

IsArrayOfScalars(schema) ==
    schema.kind = "ArrayField" /\ IsLeaf(schema.element_type[1])

\* C11: for an array of scalars parse_value gives the empty list for the
\* empty raw string, and for a non-empty raw string without a double quote
\* the list of the parts of raw between the occurrences of the array
\* delimiter, in order, empty parts kept: "urgent||priority" on "|" gives
\* urgent, "", priority
C11_ArrayOfScalarsIsPlainSplit ==
    (ValParsed /\ ~val.was_quoted /\ IsArrayOfScalars(val.schema))
        => /\ val.raw = << >> => (val.out.ok /\ val.out.value = VList(<< >>))
           /\ (val.raw # << >> /\ \A i \in 1..Len(val.raw) : val.raw[i] # QUOTE)
                 => LET parts == PlainSplit(val.raw, val.schema.delimiter, 1, << >>)
                    IN  /\ val.out.ok
                        /\ val.out.value =
                             VList([k \in 1..Len(parts) |-> VStr(parts[k])])
           /\ val.raw = UrgentPriority
                 => val.out.value =
                      VList(<<VStr(<<"u", "r", "g", "e", "n", "t">>), VStr(<< >>),
                              VStr(<<"p", "r", "i", "o", "r", "i", "t", "y">>)>>)

\* An array with an empty element between two delimiters has been decoded
C11_Witness ==
    /\ ValParsed /\ ~val.was_quoted /\ IsArrayOfScalars(val.schema)
    /\ val.raw = UrgentPriority
    /\ val.out.ok /\ Len(val.out.value.items) = 3
    /\ val.out.value.items[2] = VStr(<< >>)

\* A struct with at least one declared component
IsStructWithComponents(schema) ==
    schema.kind = "StructField" /\ schema.components # << >>

\* raw splits into more tokens than the struct has components
SplitsIntoTooMany(raw, schema) ==
    Len(Parts(raw, schema).values) > Len(schema.components)

\* C12: when the raw value of a struct with at least one component splits
\* into more tokens than declared components, its decoding fails with
\* ValueParseError and gives no mapping, whatever its tokens are (the count
\* is checked before any component is decoded); this holds for the
\* top-level struct and for a struct that is an array element or a
\* component, once the decoder has come to it
C12_TooManyPartsIsValueParseError ==
    /\ (ValParsed /\ ~val.was_quoted /\ IsStructWithComponents(val.schema)
          /\ SplitsIntoTooMany(val.raw, val.schema))
          => (~val.out.ok /\ val.out.err = ValueParseError /\ val.out.value = VNone)
    /\ (ValParsed /\ ~val.was_quoted /\ ~IsLeaf(val.schema))
          => LET sp == Parts(val.raw, val.schema)
                 schemas == PartSchemas(val.schema, Len(sp.values))
             IN  \A k \in 1..Len(sp.values) :
                    (/\ Len(sp.values) <= Len(schemas)
                     /\ IsStructWithComponents(schemas[k])
                     /\ ~sp.quoted_flags[k]
                     /\ SplitsIntoTooMany(sp.values[k], schemas[k])
                     /\ \A j \in 1..(k - 1) :
                           parse_value(sp.values[j], schemas[j],
                                       sp.quoted_flags[j]).ok)
                       => (~val.out.ok /\ val.out.err = ValueParseError
                             /\ val.out.value = VNone)

\* A struct with one array component and two tokens, the first of them
\* quoted, has been refused for its number of parts
C12_Witness ==
    /\ ValParsed /\ ~val.was_quoted /\ IsStructWithComponents(val.schema)
    /\ SplitsIntoTooMany(val.raw, val.schema)
    /\ Parts(val.raw, val.schema).quoted_flags[1]
    /\ ~IsLeaf(val.schema.components[1])
    /\ ~val.out.ok /\ val.out.err = ValueParseError

\* The names of the components are distinct
DistinctNames(components) ==
    \A i, j \in 1..Len(components) :
        components[i].name = components[j].name => i = j

\* C13: a struct with n declared components of distinct names whose raw
\* value splits into k <= n tokens decodes to the mapping with the n
\* component names as keys in declaration order, the i-th bound to the
\* decoding of token i for the first k and to None for the others, as
\* geo^(lat^lon) with 34.05 to lat = 34.05 and lon = None
C13_StructBindsEveryComponent ==
    (ValParsed /\ ~val.was_quoted /\ IsStructWithComponents(val.schema)
       /\ DistinctNames(val.schema.components)
       /\ ~SplitsIntoTooMany(val.raw, val.schema))
        => LET sp == Parts(val.raw, val.schema)
               components == val.schema.components
               decoded == [i \in 1..Len(sp.values) |->
                             parse_value(sp.values[i], components[i],
                                         sp.quoted_flags[i])]
           IN  /\ val.out.ok <=> \A i \in 1..Len(sp.values) : decoded[i].ok
               /\ val.out.ok =>
                     val.out.value =
                        VDict([i \in 1..Len(components) |->
                                 <<components[i].name,
                                   IF i <= Len(sp.values)
                                   THEN IF IsLeaf(components[i])
                                        THEN VStr(sp.values[i])
                                        ELSE decoded[i].value
                                   ELSE VNone>>])
               /\ val.raw = OnlyLat =>
                     val.out.value =
                        VDict(<< <<<<"l", "a", "t">>, VStr(OnlyLat)>>,
                                 <<<<"l", "o", "n">>, VNone>> >>)

\* A struct of two components with one token has been decoded
C13_Witness ==
    /\ ValParsed /\ ~val.was_quoted /\ IsStructWithComponents(val.schema)
    /\ Len(val.schema.components) = 2
    /\ val.raw = OnlyLat
    /\ val.out.ok /\ Len(val.out.value.items) = 2
    /\ val.out.value.items[2][2] = VNone

XY(x, y) == VDict(<< <<(<<"x">>), VStr(x)>>, <<(<<"y">>), VStr(y)>> >>)

\* The contents of a quoted leaf, and the bare leaves
LeafContents == StringsUpTo({"p", "^", "~"}, 1)
BareLeaves == StringsUpTo({"p"}, 1)

\* The claim C30: leaf quoting works at every nesting level of
\* parse_value: in an array of structs a[~]^(x^y), an element with one leaf
\* in double quotes, in first or in later position, is accepted and decodes
\* to the struct with the content of that leaf unquoted, and neither "~"
\* nor "^" in the quoted leaf splits the value; "p"^q~r^s gives
\* [{x:p, y:q}, {x:r, y:s}] and p^"q~q"~r^s gives [{x:p, y:q~q}, {x:r, y:s}]
C30_LeafQuotingInArrayOfStructs ==
    (/\ val.phase = "parsed" /\ ~val.was_quoted
     /\ val.given = parse_field(ArrayOfStructsHeader).field) =>
        /\ \A c \in LeafContents, b \in BareLeaves :
              /\ val.raw = <<QUOTE>> \o c \o <<QUOTE, "^">> \o b =>
                    val.out = VReturn(VList(<<XY(c, b)>>))
              /\ val.raw = b \o <<"^", QUOTE>> \o c \o <<QUOTE>> =>
                    val.out = VReturn(VList(<<XY(b, c)>>))
        /\ val.raw = QuotedFirstLeaf =>
              val.out = VReturn(VList(<<XY(<<"p">>, <<"q">>), XY(<<"r">>, <<"s">>)>>))
        /\ val.raw = QuotedLaterLeaf =>
              val.out = VReturn(VList(<<XY(<<"p">>, <<"q", "~", "q">>),
                                       XY(<<"r">>, <<"s">>)>>))

(***************************************************************************)
(* Properties of parse                                                     *)
(***************************************************************************)

\* parse has been called on the text as written
DocParsed == doc.phase = "parsed" /\ doc.eol = <<"\n">>

\* The data rows are one line, with or without its line end
OneLine(rows) ==
    /\ rows # << >> /\ rows # <<"\n">>
    /\ \A i \in 1..(Len(rows) - 1) : rows[i] # "\n"

TheLine(rows) ==
    IF rows[Len(rows)] = "\n" THEN SubSeq(rows, 1, Len(rows) - 1) ELSE rows

RECURSIVE CloseOf(_, _)
\* The index from i on of the quote that closes a quoted section: the
\* first quote that is not the first of a doubled pair; 0 when there is none
CloseOf(cell, i) ==
    IF i > Len(cell) THEN 0
    ELSE IF cell[i] # QUOTE THEN CloseOf(cell, i + 1)
    ELSE IF i < Len(cell) /\ cell[i + 1] = QUOTE THEN CloseOf(cell, i + 2)
    ELSE i

\* The entire cell is enclosed in quotes
EntirelyQuoted(cell) ==
    /\ Len(cell) >= 2 /\ cell[1] = QUOTE
    /\ CloseOf(cell, 2) = Len(cell)

RECURSIVE Undoubled(_)
\* The content of a quoted section: each doubled quote is one quote
Undoubled(inside) ==
    IF inside = << >> THEN << >>
    ELSE IF inside[1] = QUOTE /\ Len(inside) >= 2 /\ inside[2] = QUOTE
    THEN <<QUOTE>> \o Undoubled(SubSeq(inside, 3, Len(inside)))
    ELSE <<inside[1]>> \o Undoubled(SubSeq(inside, 2, Len(inside)))

\* The data rows are one cell of two components, x quoted and y plain
LeafQuotedCell(rows) ==
    /\ OneLine(rows)
    /\ LET cell == TheLine(rows)
           close == CloseOf(cell, 2)
       IN  /\ cell[1] = QUOTE
           /\ close > 0 /\ close < Len(cell) /\ cell[close + 1] = "^"
           /\ \A i \in (close + 2)..Len(cell) : cell[i] \notin {QUOTE, "^", ","}

\* The record the claim C6 gives for the document of the test
LeafQuotedRecord ==
    << <<<<"i", "d">>, VStr(<<"1">>)>>,
       <<<<"a", "d", "d", "r", "e", "s", "s">>,
         VDict(<< <<<<"s", "t", "r", "e", "e", "t">>,
                    VStr(<<"1", "2", "3", " ", "M", "a", "i", "n", " ", "S", "t"
                         , ",", " ", "A", "p", "t", " ", "4">>)>>,
                  <<<<"c", "i", "t", "y">>,
                    VStr(<<"S", "p", "r", "i", "n", "g", "f", "i", "e", "l", "d">>)>>,
                  <<<<"s", "t", "a", "t", "e">>, VStr(<<"I", "L">>)>>,
                  <<<<"z", "i", "p">>, VStr(<<"6", "2", "7", "0", "1">>)>> >>)>> >>

\* The claim C6: parse raises InvalidQuotingError for a struct column only
\* when the entire cell is enclosed in quotes; the cell
\* "123 Main St, Apt 4"^Springfield^IL^62701, in which one leaf component is
\* quoted, is accepted and decodes to its four components
C6_OnlyWhollyQuotedCellRefused ==
    /\ (DocParsed /\ doc.header_line = LeafQuotedDocument)
          => (doc.out.ok /\ doc.out.records = <<LeafQuotedRecord>>)
    /\ (DocParsed /\ doc.header_line = StructHeaderLine /\ LeafQuotedCell(doc.rows))
          => LET cell == TheLine(doc.rows)
                 close == CloseOf(cell, 2)
             IN  /\ doc.out.ok
                 /\ doc.out.records =
                       << << <<<<"a">>,
                              VDict(<< <<<<"x">>, VStr(Undoubled(SubSeq(cell, 2, close - 1)))>>,
                                       <<<<"y">>, VStr(SubSeq(cell, close + 2, Len(cell)))>> >>)>> >> >>

\* The claim C7: for a scalar column a cell written as a quoted token with
\* doubled quotes inside decodes to the content with each doubled quote as
\* one quote, as "say ""hi"" there" to say "hi" there, and separators in
\* the quoted section, also after a doubled quote, do not split the cell
C7_DoubledQuoteIsOneQuote ==
    /\ (DocParsed /\ doc.header_line = DoubledQuoteDocument)
          => /\ doc.out.ok
             /\ doc.out.records =
                   << << <<<<"a">>, VStr(<<"s", "a", "y", " ", QUOTE, "h", "i", QUOTE, " ", "t", "h", "e", "r", "e">>)>> >> >>
    /\ (DocParsed /\ doc.header_line = ScalarHeaderLine /\ OneLine(doc.rows)
          /\ EntirelyQuoted(TheLine(doc.rows))
          /\ \E i \in 2..(Len(TheLine(doc.rows)) - 1) : TheLine(doc.rows)[i] = QUOTE)
          => /\ doc.out.ok
             /\ doc.out.records =
                   << << <<<<"a">>,
                          VStr(Undoubled(SubSeq(TheLine(doc.rows), 2,
                                                Len(TheLine(doc.rows)) - 1)))>> >> >>

\* The assembly of logical lines as the specification words it: a token is
\* quoted when its first character, at the start of a line or right after a
\* field separator, is a double quote; in quoted mode a doubled quote is
\* content and any other quote ends the mode; a CR, LF or CRLF outside
\* quoted mode ends the line
LogicalStart ==
    [lines |-> << >>, current |-> << >>, in_quotes |-> FALSE,
     at_token_start |-> TRUE, i |-> 0]

LogicalStep(text, field_sep, st) ==
    LET ch == At(text, st.i)
        next_is(c) == st.i + 1 < Len(text) /\ At(text, st.i + 1) = c
    IN  IF st.in_quotes
        THEN IF ch = QUOTE /\ next_is(QUOTE)
             THEN [st EXCEPT !.current = @ \o <<QUOTE, QUOTE>>, !.i = @ + 2]
             ELSE [st EXCEPT !.current = Append(@, ch), !.i = @ + 1,
                             !.in_quotes = ch # QUOTE]
        ELSE IF ch = QUOTE /\ st.at_token_start
        THEN [st EXCEPT !.current = Append(@, ch), !.i = @ + 1,
                        !.in_quotes = TRUE, !.at_token_start = FALSE]
        ELSE IF MatchAt(text, st.i, field_sep)
        THEN [st EXCEPT !.current = @ \o field_sep, !.i = @ + Len(field_sep),
                        !.at_token_start = TRUE]
        ELSE IF ch \in {"\r", "\n"}
        THEN [st EXCEPT !.lines = Append(@, st.current), !.current = << >>,
                        !.at_token_start = TRUE,
                        !.i = IF ch = "\r" /\ next_is("\n") THEN @ + 2 ELSE @ + 1]
        ELSE [st EXCEPT !.current = Append(@, ch), !.i = @ + 1,
                        !.at_token_start = FALSE]

RECURSIVE LogicalRun(_, _, _)
LogicalRun(text, field_sep, st) ==
    IF st.i < Len(text) THEN LogicalRun(text, field_sep, LogicalStep(text, field_sep, st))
    ELSE IF st.current # << >> THEN Append(st.lines, st.current) ELSE st.lines

LogicalLines(text, field_sep) == LogicalRun(text, field_sep, LogicalStart)

\* The lines after the header line that are neither empty nor whitespace
RowLines(text, field_sep) ==
    SelectSeq(Tail(LogicalLines(text, field_sep)), LAMBDA line : Strip(line) # << >>)

\* The document made of the header line of text and one line
HeaderAnd(text, field_sep, line) ==
    Head(LogicalLines(text, field_sep)) \o <<"\n">> \o line

\* The claim C14: a document that parses successfully gives exactly one
\* record per non-blank logical line after the header line, in the order of
\* the lines: record k is the record of the k-th such line on its own, so
\* that blank lines give no record and change no other record
C14_OneRecordPerNonBlankLine ==
    (DocParsed /\ doc.out.ok /\ LogicalLines(doc.text, doc.field_sep) # << >>) =>
        LET lines == RowLines(doc.text, doc.field_sep) IN
        /\ Len(doc.out.records) = Len(lines)
        /\ \A k \in 1..Len(lines) :
              LET alone == parse(HeaderAnd(doc.text, doc.field_sep, lines[k]),
                                 doc.field_sep)
              IN  alone.ok /\ alone.records = <<doc.out.records[k]>>

\* The header row of the text that was parsed, and its rows of cells
DocSchemas == parse_header_row(csv_reader_first_row(doc.text, doc.field_sep).row)
DocRows == iter_rows_with_quoting(doc.text, doc.field_sep)

\* The header of the text that was parsed is a row of valid declarations
DocHeaderValid ==
    /\ doc.phase = "parsed"
    /\ csv_reader_first_row(doc.text, doc.field_sep).kind = "row"
    /\ DocSchemas.ok

\* The cell of a row for column j: an empty unquoted cell when the row has
\* no cell there
CellAt(row, j) ==
    IF j <= Len(row.values)
    THEN [raw |-> row.values[j], quoted |-> row.quoted_flags[j]]
    ELSE [raw |-> << >>, quoted |-> FALSE]

DecodedAt(row, schemas, j) ==
    parse_value(CellAt(row, j).raw, schemas[j], CellAt(row, j).quoted)

RECURSIVE NamesFrom(_, _)
\* The column names from column j on, each at its first column
NamesFrom(schemas, j) ==
    IF j > Len(schemas) THEN << >>
    ELSE (IF \E i \in 1..(j - 1) : schemas[i].name = schemas[j].name
          THEN << >> ELSE <<schemas[j].name>>) \o NamesFrom(schemas, j + 1)

\* The value a record holds for a name
ValueOf(record, name) ==
    record[CHOOSE i \in 1..Len(record) : record[i][1] = name][2]

\* The claim C15: every record has the header's column names as its keys
\* in column order, whatever the number of cells of its row; a column
\* without a cell is decoded from an empty unquoted cell, '' for a scalar
\* and [] for an array, and the cells beyond the last column take no part:
\* the parse succeeds exactly when the cells of the columns decode
C15_RecordsFollowHeaderColumns ==
    DocHeaderValid =>
        LET schemas == DocSchemas.schemas
            rows == DocRows
            columns == 1..Len(schemas)
        IN  /\ doc.out.ok <=>
                  \A k \in 1..Len(rows) : \A j \in columns :
                      DecodedAt(rows[k], schemas, j).ok
            /\ doc.out.ok =>
                  /\ Len(doc.out.records) = Len(rows)
                  /\ \A k \in 1..Len(rows) :
                        /\ [i \in 1..Len(doc.out.records[k]) |-> doc.out.records[k][i][1]]
                              = NamesFrom(schemas, 1)
                        /\ \A j \in columns :
                              (\A i \in columns : i > j => schemas[i].name # schemas[j].name)
                                 => ValueOf(doc.out.records[k], schemas[j].name)
                                       = DecodedAt(rows[k], schemas, j).value
                        /\ \A j \in columns :
                              j > Len(rows[k].values) =>
                                 /\ IsLeaf(schemas[j]) =>
                                       ValueOf(doc.out.records[k], schemas[j].name)
                                          = VStr(<< >>)
                                 /\ schemas[j].kind = "ArrayField" =>
                                       ValueOf(doc.out.records[k], schemas[j].name)
                                          = VList(<< >>)

\* a,b[~] with the rows p and ,, : one cell for two columns, then three
C15_Witness ==
    /\ DocParsed /\ doc.header_line = TwoColumnHeaderLine
    /\ doc.rows = <<"p", "\n", ",", ",">>
    /\ doc.out.ok
    /\ doc.out.records =
          << << <<<<"a">>, VStr(<<"p">>)>>, <<<<"b">>, VList(<< >>)>> >>,
             << <<<<"a">>, VStr(<< >>)>>, <<<<"b">>, VList(<< >>)>> >> >>

\* The header cells of the text that was parsed
DocHeaderCells == csv_reader_first_row(doc.text, doc.field_sep).row

\* Header cell j is refused by parse_field, and no cell before it
FirstRefusedHeaderCell(j) ==
    /\ j \in 1..Len(DocHeaderCells)
    /\ ~parse_field(Strip(DocHeaderCells[j])).ok
    /\ \A i \in 1..(j - 1) : parse_field(Strip(DocHeaderCells[i])).ok

\* The cell of row k for column j is refused by parse_value, and no cell
\* before it in reading order
FirstRefusedCell(k, j) ==
    LET schemas == DocSchemas.schemas
        columns == 1..Len(schemas)
    IN  /\ k \in 1..Len(DocRows) /\ j \in columns
        /\ ~DecodedAt(DocRows[k], schemas, j).ok
        /\ \A i \in 1..(j - 1) : DecodedAt(DocRows[k], schemas, i).ok
        /\ \A n \in 1..(k - 1) : \A i \in columns : DecodedAt(DocRows[n], schemas, i).ok

\* The claim C16: when the header line or a data row raises an error
\* (HeaderParseError, DelimiterConflictError, ValueParseError for too many
\* struct parts, InvalidQuotingError), parse raises that error and returns
\* no record: not those of the rows before the failing row, and not those
\* of the rows after it
C16_ErrorLeavesNoRecords ==
    (doc.phase = "parsed" /\ csv_reader_first_row(doc.text, doc.field_sep).kind = "row") =>
        /\ \A j \in 1..Len(DocHeaderCells) :
              FirstRefusedHeaderCell(j) =>
                 /\ doc.out = PRaise(parse_field(Strip(DocHeaderCells[j])).err)
                 /\ doc.out.err \in {HeaderParseError, DelimiterConflictError}
        /\ DocSchemas.ok =>
              \A k \in 1..Len(DocRows) : \A j \in 1..Len(DocSchemas.schemas) :
                 FirstRefusedCell(k, j) =>
                    /\ doc.out =
                          PRaise(DecodedAt(DocRows[k], DocSchemas.schemas, j).err)
                    /\ doc.out.err \in {ValueParseError, InvalidQuotingError}
        /\ ~doc.out.ok => doc.out.records = << >>

\* a^(x) with the rows p, p^p and q: the second row has too many parts
C16_Witness ==
    /\ doc.phase = "parsed" /\ doc.header_line = FailingRowDocument
    /\ FirstRefusedCell(2, 1)
    /\ Len(DocRows) = 3
    /\ doc.out = PRaise(ValueParseError)

\* The claim C17: parse gives the same records whether the rows of the
\* text end with LF, with CRLF or with a bare CR, the header row included:
\* a text without quotes whose line ends are written as CRLF or CR gives
\* the records of the text written with LF, and "id,name\r\n1,Alice\r\n"
\* gives the one record id = 1, name = Alice
C17_SameRecordsForAnyLineEnd ==
    /\ (doc.phase = "parsed" /\ doc.eol # <<"\n">>) =>
          LET lf == parse(doc.header_line \o doc.rows, doc.field_sep)
          IN  lf.ok => doc.out = lf
    /\ (doc.phase = "parsed" /\ doc.header_line = CrLfDocument) =>
          doc.out = PReturn(<< << <<<<"i", "d">>, VStr(<<"1">>)>>,
                                  <<<<"n", "a", "m", "e">>,
                                    VStr(<<"A", "l", "i", "c", "e">>)>> >> >>)

\* A line without its double quotes
WithoutQuotes(line) == SelectSeq(line, LAMBDA c : c # QUOTE)

\* No double quote of the rows is the first character of a cell
NoQuotedToken(rows) ==
    \A i \in 1..Len(rows) :
        rows[i] = QUOTE => (i > 1 /\ rows[i - 1] \notin {"\n", ","})

\* The claim C18: the assembly of logical lines and the row splitter agree
\* on quoted mode.  A line terminator is content, and does not end the
\* logical line, exactly when it stands in a quoted token as the row
\* splitter has it (the token begins with a double quote and its quoted
\* section is open), so that the assembled lines are the lines that end at
\* the terminators outside such tokens; a double quote in the middle of an
\* unquoted cell merges no line terminator into the row
C18_LineAssemblyAgreesWithRowSplitter ==
    DocParsed =>
        /\ LET assembled == split_csv_lines(doc.text)
               expected == LogicalLines(doc.text, doc.field_sep)
           IN  /\ Len(assembled) = Len(expected)
               /\ \A k \in 1..Len(assembled) :
                     WithoutQuotes(assembled[k]) = WithoutQuotes(expected[k])
        /\ (doc.header_line = ScalarHeaderLine /\ NoQuotedToken(doc.rows)) =>
              /\ doc.out.ok
              /\ \A k \in 1..Len(doc.out.records) :
                    \A i \in 1..Len(doc.out.records[k][1][2].str) :
                        doc.out.records[k][1][2].str[i] # "\n"

\* The claim C19: the field separator is a string matched literally at
\* the scan position, so that with the separator || the header row and
\* every data row are split at each || outside quoted sections: a||b with
\* the row p||q gives a = p, b = q, and with the row "p||q"||r it gives
\* a = p||q, b = r
C19_MultiCharacterSeparatorSplits ==
    /\ (doc.phase = "parsed" /\ doc.header_line = DoubleBarDocument) =>
          doc.out = PReturn(<< << <<<<"a">>, VStr(<<"p">>)>>,
                                  <<<<"b">>, VStr(<<"q">>)>> >> >>)
    /\ (doc.phase = "parsed" /\ doc.header_line = DoubleBarQuotedDocument) =>
          doc.out = PReturn(<< << <<<<"a">>, VStr(<<"p", "|", "|", "q">>)>>,
                                  <<<<"b">>, VStr(<<"r">>)>> >> >>)

\* The claim C20: the first logical line of the text is the header,
\* whatever the text: the column schemas come from the very line that the
\* pass over the data rows skips.  An empty first line is a header of one
\* empty cell, which has no name, so that parse fails with a header syntax
\* error and never decodes the following lines with no column at all
C20_FirstLineIsHeader ==
    /\ (DocParsed /\ split_csv_lines(doc.text) # << >>
           /\ csv_reader_first_row(doc.text, doc.field_sep).kind = "row") =>
          DocHeaderCells
             = parse_csv_row(Head(split_csv_lines(doc.text)), doc.field_sep).values
    /\ (DocParsed /\ doc.header_line = EmptyHeaderLine) =>
          doc.out = PRaise(HeaderParseError)

\* The claim C21: parse on the empty text, which has no header line,
\* fails with the empty-document error, a CSVPPError, and returns no list;
\* a text that is a valid header line and no data row returns the empty
\* list without error
C21_EmptyDocumentAndHeaderOnly ==
    /\ (doc.phase = "parsed" /\ doc.text = << >>) => doc.out = PRaise(CSVPPError)
    /\ (DocHeaderValid /\ DocSchemas.schemas # << >>
           /\ RowLines(doc.text, doc.field_sep) = << >>) =>
          doc.out = PReturn(<< >>)
    /\ (doc.phase = "parsed" /\ doc.header_line = HeaderOnlyDocument) =>
          doc.out = PReturn(<< >>)

C21_Witness ==
    /\ doc.phase = "parsed" /\ doc.header_line = EmptyDocument
    /\ doc.text = << >>
    /\ doc.out = PRaise(CSVPPError)

\* A decoded struct has one entry per component of its schema, in the
\* order of the schema: the i-th holds what the i-th element of the raw
\* value decodes to, None where the raw value has no i-th element
OneEntryPerComponent(value, schema, raw) ==
    LET sp == quote_aware_split(raw, <<schema.component_delimiter>>) IN
    /\ value.tag = "dict"
    /\ Len(value.items) = Len(schema.components)
    /\ \A i \in 1..Len(schema.components) :
          i <= Len(value.items) =>
             value.items[i]
                = <<schema.components[i].name,
                    IF i <= Len(sp.values)
                    THEN parse_value(sp.values[i], schema.components[i], FALSE).value
                    ELSE VNone>>

\* The claim C29: one binding per declared position: every record returned
\* by parse() has as many entries as the header has columns, the j-th
\* holding the name of column j and the value decoded for column j, also
\* when two columns share a name; and every decoded struct has as many
\* entries as its schema has components, the i-th for component i
C29_OneBindingPerPosition ==
    (DocHeaderValid /\ doc.out.ok) =>
        LET schemas == DocSchemas.schemas
            rows == DocRows
        IN  \A k \in 1..Len(doc.out.records) :
               /\ Len(doc.out.records[k]) = Len(schemas)
               /\ \A j \in 1..Len(schemas) :
                     j <= Len(doc.out.records[k]) =>
                        /\ doc.out.records[k][j]
                              = <<schemas[j].name, DecodedAt(rows[k], schemas, j).value>>
                        /\ schemas[j].kind = "StructField" =>
                              OneEntryPerComponent(doc.out.records[k][j][2], schemas[j],
                                                   CellAt(rows[k], j).raw)

(***************************************************************************)
(* Properties of quote_aware_split                                         *)
(***************************************************************************)

\* The index after the source text of token k of a returned split
TokenEnd(k) ==
    IF k < Len(qas.starts) THEN qas.starts[k + 1] - Len(qas.delimiter)
    ELSE Len(qas.s)

\* C8: in quote_aware_split a delimiter inside a quoted section never ends
\* the token and is content; inside a quoted section a doubled double quote
\* gives one literal double quote and any other double quote ends the
\* section, after which the delimiter is recognised again; the enclosing
\* quotes are not part of the token; 'a|"say ""hi"""|c' on '|' gives
\* ['a', 'say "hi"', 'c'] with flags [False, True, False].
C8_QuotedSections ==
    [][ /\ (qas.phase = "scan" /\ qas'.phase = "scan") =>
            LET st == qas.st
                st2 == qas'.st
                ch == At(qas.s, st.i)
                doubled == st.i + 1 < Len(qas.s) /\ At(qas.s, st.i + 1) = QUOTE
            IN  /\ st.in_quotes =>
                      /\ st2.values = st.values
                      /\ st2.quoted_flags = st.quoted_flags
                /\ (st.in_quotes /\ ch # QUOTE) =>
                      /\ st2.current = Append(st.current, ch)
                      /\ st2.in_quotes
                      /\ st2.i = st.i + 1
                /\ (st.in_quotes /\ ch = QUOTE /\ doubled) =>
                      /\ st2.current = Append(st.current, QUOTE)
                      /\ st2.in_quotes
                      /\ st2.i = st.i + 2
                /\ (st.in_quotes /\ ch = QUOTE /\ ~doubled) =>
                      /\ st2.current = st.current
                      /\ ~st2.in_quotes
                      /\ st2.i = st.i + 1
                /\ (~st.in_quotes /\ ch = QUOTE /\ st.i = qas.tok_start) =>
                      /\ st2.current = st.current
                      /\ st2.in_quotes
                /\ (~st.in_quotes /\ st.this_quoted
                        /\ MatchAt(qas.s, st.i, qas.delimiter)) =>
                      /\ st2.values = Append(st.values, st.current)
                      /\ st2.quoted_flags = Append(st.quoted_flags, TRUE)
                      /\ st2.current = << >>
        /\ (qas'.phase = "returned" /\ qas'.s = SayHi) =>
              /\ qas'.out.values =
                    <<<<"a">>, <<"s", "a", "y", " ", QUOTE, "h", "i", QUOTE>>, <<"c">>>>
              /\ qas'.out.quoted_flags = <<FALSE, TRUE, FALSE>>
      ]_vars

\* C8 witness: the split of 'a|"say ""hi"""|c' has returned its three tokens
C8_Witness ==
    /\ qas.phase = "returned"
    /\ qas.s = SayHi
    /\ Len(qas.out.values) = 3
    /\ qas.out.quoted_flags[2]

\* C9: each returned token is flagged quoted iff the first character of its
\* source text is a double quote; quoted mode is only ever entered on that
\* first character; an unquoted token is its source text unchanged, so that
\* a double quote later in it is literal content.
C9_QuotedIffLeadingQuote ==
    /\ qas.phase = "scan" =>
          /\ qas.st.this_quoted <=>
                /\ qas.tok_start < qas.st.i
                /\ At(qas.s, qas.tok_start) = QUOTE
          /\ qas.st.in_quotes => qas.st.this_quoted
          /\ ~qas.st.this_quoted =>
                qas.st.current = Slice(qas.s, qas.tok_start, qas.st.i)
    /\ qas.phase = "returned" =>
          /\ Len(qas.starts) = Len(qas.out.quoted_flags)
          /\ Len(qas.starts) = Len(qas.out.values)
          /\ \A k \in 1..Len(qas.starts) :
                /\ qas.out.quoted_flags[k] <=>
                      /\ qas.starts[k] < Len(qas.s)
                      /\ At(qas.s, qas.starts[k]) = QUOTE
                /\ ~qas.out.quoted_flags[k] =>
                      qas.out.values[k] = Slice(qas.s, qas.starts[k], TokenEnd(k))

\* C9 witness: a returned split with an unquoted token that holds a double
\* quote after its first character, next to a quoted token
C9_Witness ==
    /\ qas.phase = "returned"
    /\ \E k \in 1..Len(qas.out.values) :
          /\ ~qas.out.quoted_flags[k]
          /\ \E j \in 2..Len(qas.out.values[k]) : qas.out.values[k][j] = QUOTE
    /\ \E k \in 1..Len(qas.out.values) : qas.out.quoted_flags[k]

\* The occurrences of d in s counted from the left without overlap
RECURSIVE CountOccurrences(_, _, _)
CountOccurrences(s, d, i) ==
    IF i >= Len(s) THEN 0
    ELSE IF MatchAt(s, i, d) THEN 1 + CountOccurrences(s, d, i + Len(d))
    ELSE CountOccurrences(s, d, i + 1)

HasQuote(s) == \E k \in 1..Len(s) : s[k] = QUOTE

\* C10: quote_aware_split returns two lists of equal length, never empty,
\* of length 1 plus the number of delimiter occurrences recognised outside
\* quoted sections; the empty string gives one empty unquoted token.
C10_OneTokenPerDelimiter ==
    qas.phase = "returned" =>
        /\ Len(qas.out.values) = Len(qas.out.quoted_flags)
        /\ Len(qas.out.values) >= 1
        /\ Len(qas.out.values) = 1 + qas.recognised
        /\ ~HasQuote(qas.s) =>
              Len(qas.out.values) = 1 + CountOccurrences(qas.s, qas.delimiter, 0)
        /\ qas.s = << >> =>
              /\ qas.out.values = << << >> >>
              /\ qas.out.quoted_flags = <<FALSE>>

\* C10 witness: a returned split of several tokens, one of them empty, with
\* a delimiter occurrence inside a quoted section that was not recognised
C10_Witness ==
    /\ qas.phase = "returned"
    /\ Len(qas.out.values) >= 3
    /\ \E k \in 1..Len(qas.out.values) : qas.out.values[k] = << >>
    /\ HasQuote(qas.s)
    /\ Len(qas.out.values) < 1 + CountOccurrences(qas.s, qas.delimiter, 0)


\* The claim C28: the row splitter and the splitter inside a field are the
\* same function: for every line and every separator of one character,
\* _parse_csv_row(line, sep) returns the same (values, quoted flags) pair
\* as quote_aware_split(line, sep), and the two loops take the same step
\* from every state of the scan
C28_RowSplitterIsFieldSplitter ==
    Len(qas.delimiter) = 1 =>
        /\ (qas.phase = "scan" /\ qas.st.i < Len(qas.s)) =>
              CsvRowStep(qas.s, qas.delimiter, qas.st)
                 = SplitStep(qas.s, qas.delimiter, qas.st)
        /\ qas.phase = "returned" =>
              /\ parse_csv_row(qas.s, qas.delimiter) = qas.out
              /\ qas.out = quote_aware_split(qas.s, qas.delimiter)

\* A line of two tokens, the first quoted and holding the separator, the
\* second bare, has been split
C28_Witness ==
    /\ qas.phase = "returned" /\ Len(qas.delimiter) = 1
    /\ Len(qas.out.values) = 2
    /\ qas.out.quoted_flags = <<TRUE, FALSE>>
    /\ qas.out.values[1] = qas.delimiter
    /\ qas.out.values[2] # << >>
    /\ parse_csv_row(qas.s, qas.delimiter) = qas.out

====
